---- MODULE Spec2Model ----
(***************************************************************************)
(* A model of the de-identification tools of tml-ctp:                      *)
(*   - tml_ctp/cli/utils/clean_series_tags.py  (sensitive-pair extraction  *)
(*     and the recursive tag substitution),                                *)
(*   - tml_ctp/cli/utils/delete_identifiable_dicoms.py (rule classifier),  *)
(*   - tml_ctp/cli/ctp_dat_batcher.py (slice sorter, DAT script update).   *)
(* Python strings are sequences of one-character strings, so that          *)
(* str.replace, str.split, str.join, str(int), int(str), float(str) and    *)
(* the substring tests are computed, not assumed.                          *)
(***************************************************************************)
EXTENDS Integers, Sequences, FiniteSets, TLC

VARIABLES
    pc,         \* position of the running script
    ds,         \* the pydicom Dataset being cleaned (ctp_dicom_corrected)
    ds0,        \* the Dataset as read from the file (pydicom.dcmread)
    pairs,      \* dangerous_tag_pairs
    idx,        \* position of the loop over dangerous_tag_pairs
    saved,      \* the file after save_as: [written, ds]
    emitted,    \* warnings issued by the substitution engine
    original_ref,   \* the reference image of original_subject_folder
    ctp_ref,        \* the reference image of ctp_subject_folder
    list_issues,    \* list_issues of get_dangerous_tag_pairs
    log_file,       \* the lines of all_file_issues.txt
    dataset,        \* the header read by delete_identifiable_dicom_file
    delete_T1w,     \* its opt-in flags
    delete_T2w,
    delete_this_file,   \* its decision
    evaluated,      \* the rules whose test has been evaluated, in order
    fired,          \* the rules that set delete_this_file, in order
    file_exists,    \* whether the file is still on disk
    file_paths,         \* the files given to get_sorted_image_files
    sorted_file_paths,  \* what it returns
    resorted_file_paths,    \* what it returns when given its own result
    original_dat_script,    \* the lines of the file at the template path
    original_bytes,         \* its lines before the first call
    temp_dir,               \* the files anonymizer_<suffix>.script of temp_dir
    dat_args,               \* new_patient_id and dateinc of the last call
    dat_result,             \* what the last call of update_dat_script_file returned
    worker,                 \* the concurrent calls of update_dat_script_file
    dicom_folder,           \* the files of the folder given to check_and_rename_dicom_files
    dicom_folder0,          \* the folder before the call
    rename_args,            \* the other arguments of the call, and the platform
    all_patient_folders,    \* main: the folders to process
    folder_index,           \* main: position of the loop over them
    CTP_ids_file,           \* main: the lines of the newids_dateinc log
    injected,               \* main: what update_dat_script_file wrote for each folder
    driver_args             \* main: new_patient_ids and day_shifts, and the template

substVars == <<pc, ds, ds0, pairs, idx, saved, emitted>>

refVars == <<original_ref, ctp_ref, list_issues, log_file>>

clsVars == <<dataset, delete_T1w, delete_T2w, delete_this_file, evaluated, fired,
             file_exists>>

sortVars == <<file_paths, sorted_file_paths, resorted_file_paths>>

datVars == <<original_dat_script, original_bytes, temp_dir, dat_args, dat_result>>

wrkVars == <<worker>>

renVars == <<dicom_folder, dicom_folder0, rename_args>>

drvVars == <<all_patient_folders, folder_index, CTP_ids_file, injected, driver_args>>

moreVars == <<wrkVars, renVars, drvVars>>

batcherVars == <<sortVars, datVars, moreVars>>

vars == <<substVars, refVars, clsVars, batcherVars>>

\* What the classifier leaves alone: the state of the cleaning script but pc.
substData == <<ds, ds0, pairs, idx, saved, emitted>>

\* The scripts that clean no file.
NoSubst ==
    /\ ds = <<>>
    /\ ds0 = <<>>
    /\ pairs = <<>>
    /\ idx = 1
    /\ saved = [written |-> FALSE, ds |-> <<>>]
    /\ emitted = <<>>

\* The scripts that classify no file.
NoClassifier ==
    /\ dataset = <<>>
    /\ delete_T1w = FALSE
    /\ delete_T2w = FALSE
    /\ delete_this_file = FALSE
    /\ evaluated = <<>>
    /\ fired = <<>>
    /\ file_exists = TRUE

\* The scripts that sort no series.
NoSort ==
    /\ file_paths = <<>>
    /\ sorted_file_paths = <<>>
    /\ resorted_file_paths = <<>>

\* The scripts that write no DAT script.
NoDat ==
    /\ original_dat_script = <<>>
    /\ original_bytes = <<>>
    /\ temp_dir = <<>>
    /\ dat_args = <<>>
    /\ dat_result = <<>>

\* No concurrent call, no folder to rename, no batch.
NoWorkers == worker = <<>>

NoRename ==
    /\ dicom_folder = {}
    /\ dicom_folder0 = {}
    /\ rename_args = <<>>

NoDriver ==
    /\ all_patient_folders = <<>>
    /\ folder_index = 0
    /\ CTP_ids_file = <<>>
    /\ injected = <<>>
    /\ driver_args = <<>>

NoBatcher == NoSort /\ NoDat /\ NoWorkers /\ NoRename /\ NoDriver

-----------------------------------------------------------------------------
(* Bounds of the model. *)

MaxLen == 3        \* longest string value of a field
MaxPat == 2        \* longest original / replacement string of a pair
MaxDepth == 2      \* deepest nesting of sequence fields
MaxInt == 12       \* largest integer value of a numeric field
MaxItem == 1       \* longest string item of a list value
MaxRef == 1        \* longest PatientID / SeriesDate of a reference image

-----------------------------------------------------------------------------
(* Python strings. *)

Delim == "\\"      \* the backslash of lines 180, 181 and 184

Digits == <<"0", "1", "2", "3", "4", "5", "6", "7", "8", "9">>

IsDigit(c) == \E i \in 1..10 : Digits[i] = c

DigitVal(c) == (CHOOSE i \in 1..10 : Digits[i] = c) - 1

\* All strings over the alphabet A of length at most n.
RECURSIVE StrsOver(_, _)
StrsOver(A, n) ==
    IF n = 0 THEN {<<>>}
    ELSE LET shorter == StrsOver(A, n - 1)
         IN  shorter \cup {<<c>> \o s : c \in A, s \in {t \in shorter : Len(t) = n - 1}}

\* sub in s  (Python's substring test on str).
StrContains(s, sub) ==
    \E i \in 1..(Len(s) - Len(sub) + 1) : SubSeq(s, i, i + Len(sub) - 1) = sub

\* s.replace("", new): new before every character and at the end.
RECURSIVE ReplaceEmpty(_, _)
ReplaceEmpty(s, new) ==
    IF s = <<>> THEN new
    ELSE new \o <<Head(s)>> \o ReplaceEmpty(Tail(s), new)

\* s.replace(old, new) for a non-empty old: leftmost, non-overlapping.
RECURSIVE ReplaceNonEmpty(_, _, _)
ReplaceNonEmpty(s, old, new) ==
    IF Len(s) < Len(old) THEN s
    ELSE IF SubSeq(s, 1, Len(old)) = old
         THEN new \o ReplaceNonEmpty(SubSeq(s, Len(old) + 1, Len(s)), old, new)
         ELSE <<Head(s)>> \o ReplaceNonEmpty(Tail(s), old, new)

\* str.replace(old, new)
StrReplace(s, old, new) ==
    IF old = <<>> THEN ReplaceEmpty(s, new) ELSE ReplaceNonEmpty(s, old, new)

\* s.split("\\"): the components between the delimiters, at least one.
RECURSIVE SplitFrom(_, _)
SplitFrom(s, cur) ==
    IF s = <<>> THEN <<cur>>
    ELSE IF Head(s) = Delim THEN <<cur>> \o SplitFrom(Tail(s), <<>>)
         ELSE SplitFrom(Tail(s), Append(cur, Head(s)))

StrSplit(s) == SplitFrom(s, <<>>)

\* A join that forgets the delimiter.
RECURSIVE StrJoin_NoDelimiter(_)
StrJoin_NoDelimiter(parts) ==
    IF parts = <<>> THEN <<>> ELSE parts[1] \o StrJoin_NoDelimiter(Tail(parts))

\* "\\".join(parts)
RECURSIVE StrJoin(_)
StrJoin(parts) ==
    IF parts = <<>> THEN <<>>
    ELSE IF Len(parts) = 1 THEN parts[1]
         ELSE parts[1] \o <<Delim>> \o StrJoin(Tail(parts))

\* str.isnumeric(): non-empty and every character numeric.
IsNumeric(s) == s # <<>> /\ \A i \in 1..Len(s) : IsDigit(s[i])

-----------------------------------------------------------------------------
(* Numbers and their text.  An int is an integer.  A float is              *)
(* [ip, fr]: its integer part and its fractional digits without trailing   *)
(* zeros (the floats of the model have few digits, so repr is exact and    *)
(* positional).                                                            *)

RECURSIVE NatToStr(_)
NatToStr(n) ==
    IF n < 10 THEN <<Digits[n + 1]>>
    ELSE NatToStr(n \div 10) \o <<Digits[(n % 10) + 1]>>

\* str(int)
IntToStr(n) == IF n < 0 THEN <<"-">> \o NatToStr(-n) ELSE NatToStr(n)

\* str(float)
FloatToStr(f) ==
    NatToStr(f.ip) \o <<".">> \o (IF f.fr = <<>> THEN <<"0">> ELSE f.fr)

RECURSIVE DigitsToNat(_, _)
DigitsToNat(s, acc) ==
    IF s = <<>> THEN acc ELSE DigitsToNat(Tail(s), 10 * acc + DigitVal(Head(s)))

AllDigits(s) == \A i \in 1..Len(s) : IsDigit(s[i])

RECURSIVE StripTrailingZeros(_)
StripTrailingZeros(s) ==
    IF s = <<>> THEN s
    ELSE IF s[Len(s)] = "0" THEN StripTrailingZeros(SubSeq(s, 1, Len(s) - 1))
         ELSE s

\* int(text): [ok, v]; ok is FALSE where Python raises ValueError.
ParseInt(s) ==
    LET neg  == s # <<>> /\ Head(s) = "-"
        body == IF neg THEN Tail(s) ELSE s
    IN  IF body # <<>> /\ AllDigits(body)
        THEN [ok |-> TRUE,
              v |-> IF neg THEN 0 - DigitsToNat(body, 0) ELSE DigitsToNat(body, 0)]
        ELSE [ok |-> FALSE, v |-> 0]

\* float(text) for a non-negative positional text: [ok, v].
ParseFloat(s) ==
    LET dots == {i \in 1..Len(s) : s[i] = "."}
        dot  == IF dots = {} THEN Len(s) + 1 ELSE CHOOSE i \in dots : \A j \in dots : i <= j
        ipart == SubSeq(s, 1, dot - 1)
        fpart == SubSeq(s, dot + 1, Len(s))
    IN  IF Cardinality(dots) <= 1 /\ AllDigits(ipart) /\ AllDigits(fpart)
           /\ Len(ipart) + Len(fpart) > 0
        THEN [ok |-> TRUE,
              v |-> [ip |-> DigitsToNat(ipart, 0), fr |-> StripTrailingZeros(fpart)]]
        ELSE [ok |-> FALSE, v |-> [ip |-> 0, fr |-> <<>>]]

-----------------------------------------------------------------------------------------------------------------------------------------------------
(* Data elements.  An element is [VR, type, s, n, fr, list, sq]: type is   *)
(* the Python type of elem.value ("str", "int", "float", "BaseTag",        *)
(* "list", "bytes"), or "Sequence" for VR "SQ".  The value is s for a str, *)
(* n for an int or a BaseTag, the float [ip |-> n, fr |-> fr] for a float, *)
(* the items [type, s, n] of list for a list, and the item Datasets sq for *)
(* a sequence; the fields a type does not use are empty.  A Dataset is the *)
(* sequence of its elements, in tag order.                                 *)

Elem(vr, type, s, n, fr, list, sq) ==
    [VR |-> vr, type |-> type, s |-> s, n |-> n, fr |-> fr, list |-> list, sq |-> sq]

StrElem(s)     == Elem("LO", "str", s, 0, <<>>, <<>>, <<>>)
IntElem(n)     == Elem("SL", "int", <<>>, n, <<>>, <<>>, <<>>)
FloatElem(f)   == Elem("FD", "float", <<>>, f.ip, f.fr, <<>>, <<>>)
TagElem(n)     == Elem("AT", "BaseTag", <<>>, n, <<>>, <<>>, <<>>)
BytesElem      == Elem("OB", "bytes", <<>>, 0, <<>>, <<>>, <<>>)
ListElem(l)    == Elem("LO", "list", <<>>, 0, <<>>, l, <<>>)
SeqElem(items) == Elem("SQ", "Sequence", <<>>, 0, <<>>, <<>>, items)

StrItem(s) == [type |-> "str", s |-> s, n |-> 0]
IntItem(n) == [type |-> "int", s |-> <<>>, n |-> n]

\* isinstance(x, int) or isinstance(x, float), BaseTag having been excluded
IsNumberType(t) == t = "int" \/ t = "float"

\* str(elem_value) of a number [type, n, fr]
NumberToStr(num) ==
    IF num.type = "int" THEN IntToStr(num.n)
    ELSE FloatToStr([ip |-> num.n, fr |-> num.fr])

\* The replaced text parsed with int() whatever the type of the value.
replace_str_in_number_AsInt(elem_value, initial_str, new_str) ==
    LET parsed == ParseInt(StrReplace(NumberToStr(elem_value), initial_str, new_str))
    IN  IF parsed.ok
        THEN [raised |-> FALSE, n |-> parsed.v, fr |-> <<>>]
        ELSE [raised |-> TRUE, n |-> elem_value.n, fr |-> elem_value.fr]

\* replace_str_in_number, lines 113-118, on the number [type, n, fr]:
\* [raised, n, fr], raised where int() or float() raises ValueError.
replace_str_in_number(elem_value, initial_str, new_str) ==
    LET elem_value_str == NumberToStr(elem_value)
        replaced == StrReplace(elem_value_str, initial_str, new_str)
    IN  IF elem_value.type = "int"
        THEN LET parsed == ParseInt(replaced)
             IN  IF parsed.ok
                 THEN [raised |-> FALSE, n |-> parsed.v, fr |-> <<>>]
                 ELSE [raised |-> TRUE, n |-> elem_value.n, fr |-> elem_value.fr]
        ELSE LET parsed == ParseFloat(replaced)
             IN  IF parsed.ok
                 THEN [raised |-> FALSE, n |-> parsed.v.ip, fr |-> parsed.v.fr]
                 ELSE [raised |-> TRUE, n |-> elem_value.n, fr |-> elem_value.fr]

\* A str value rewritten as a whole, the delimiter not looked for.
AnonStr_Whole(s, initial_str, new_str) == StrReplace(s, initial_str, new_str)

\* lines 180-188: a str value
AnonStr(s, initial_str, new_str) ==
    IF StrContains(s, <<Delim>>)
    THEN LET parts == StrSplit(s)
         IN  StrJoin([i \in 1..Len(parts) |-> StrReplace(parts[i], initial_str, new_str)])
    ELSE StrReplace(s, initial_str, new_str)

\* lines 197-204: one item of a list value.  Line 200 tests the type of
\* elem.value (elem_type, "list" here) in place of the item's, so the
\* number branch is never taken.
AnonListItem(item, elem_type, initial_str, new_str) ==
    IF item.type = "str"
    THEN [item EXCEPT !.s = StrReplace(item.s, initial_str, new_str)]
    ELSE IF IsNumberType(elem_type) /\ IsNumeric(initial_str)
         THEN LET res == replace_str_in_number([type |-> item.type, n |-> item.n, fr |-> <<>>],
                                               initial_str, new_str)
              IN  [item EXCEPT !.n = res.n]
         ELSE item

RECURSIVE anonymize_tag_recurse(_, _, _)
RECURSIVE AnonItems(_, _, _)
RECURSIVE AnonElems(_, _, _)

\* One data element, a tag value taken for the int it is a subclass of
\* (the branch of lines 189-192 left out).
AnonElem_TagAsInt(elem, initial_str, new_str) ==
    IF elem.VR = "SQ"
    THEN LET res == AnonItems(elem.sq, initial_str, new_str)
         IN  [raised |-> res.raised, elem |-> [elem EXCEPT !.sq = res.items]]
    ELSE IF elem.type = "str"
    THEN [raised |-> FALSE, elem |-> [elem EXCEPT !.s = AnonStr(elem.s, initial_str, new_str)]]
    ELSE IF IsNumberType(elem.type) \/ elem.type = "BaseTag"
    THEN IF IsNumeric(initial_str)
         THEN LET res == replace_str_in_number(
                            [type |-> IF elem.type = "float" THEN "float" ELSE "int",
                             n |-> elem.n, fr |-> elem.fr],
                            initial_str, new_str)
              IN  [raised |-> res.raised, elem |-> [elem EXCEPT !.n = res.n, !.fr = res.fr]]
         ELSE [raised |-> FALSE, elem |-> elem]
    ELSE IF elem.type = "list"
    THEN [raised |-> FALSE,
          elem |-> [elem EXCEPT !.list =
                      [i \in 1..Len(elem.list) |->
                          AnonListItem(elem.list[i], elem.type, initial_str, new_str)]]]
    ELSE [raised |-> FALSE, elem |-> elem]

\* lines 176-204: one data element; [raised, elem]
AnonElem(elem, initial_str, new_str) ==
    IF elem.VR = "SQ"
    THEN LET res == AnonItems(elem.sq, initial_str, new_str)
         IN  [raised |-> res.raised, elem |-> [elem EXCEPT !.sq = res.items]]
    ELSE IF elem.type = "str"
    THEN [raised |-> FALSE, elem |-> [elem EXCEPT !.s = AnonStr(elem.s, initial_str, new_str)]]
    ELSE IF elem.type = "BaseTag"
    THEN [raised |-> FALSE, elem |-> elem]
    ELSE IF IsNumberType(elem.type)
    THEN IF IsNumeric(initial_str)
         THEN LET res == replace_str_in_number([type |-> elem.type, n |-> elem.n, fr |-> elem.fr],
                                               initial_str, new_str)
              IN  [raised |-> res.raised, elem |-> [elem EXCEPT !.n = res.n, !.fr = res.fr]]
         ELSE [raised |-> FALSE, elem |-> elem]
    ELSE IF elem.type = "list"
    THEN [raised |-> FALSE,
          elem |-> [elem EXCEPT !.list =
                      [i \in 1..Len(elem.list) |->
                          AnonListItem(elem.list[i], elem.type, initial_str, new_str)]]]
    ELSE [raised |-> FALSE, elem |-> elem]

\* line 177: the items of a sequence, in order; a raise leaves the later
\* items as they were.  [raised, items]
AnonItems(items, initial_str, new_str) ==
    IF items = <<>> THEN [raised |-> FALSE, items |-> <<>>]
    ELSE LET first == anonymize_tag_recurse(Head(items), initial_str, new_str)
         IN  IF first.raised
             THEN [raised |-> TRUE, items |-> <<first.ds>> \o Tail(items)]
             ELSE LET rest == AnonItems(Tail(items), initial_str, new_str)
                  IN  [raised |-> rest.raised, items |-> <<first.ds>> \o rest.items]

\* line 175: the elements of a Dataset, in order.  [raised, elems]
AnonElems(elems, initial_str, new_str) ==
    IF elems = <<>> THEN [raised |-> FALSE, elems |-> <<>>]
    ELSE LET first == AnonElem(Head(elems), initial_str, new_str)
         IN  IF first.raised
             THEN [raised |-> TRUE, elems |-> <<first.elem>> \o Tail(elems)]
             ELSE LET rest == AnonElems(Tail(elems), initial_str, new_str)
                  IN  [raised |-> rest.raised, elems |-> <<first.elem>> \o rest.elems]

\* anonymize_tag_recurse(ds, initial_str, new_str): [raised, ds]; the
\* Dataset is changed in place, so a raise leaves it partly rewritten.
anonymize_tag_recurse(record, initial_str, new_str) ==
    LET res == AnonElems(record, initial_str, new_str)
    IN  [raised |-> res.raised, ds |-> res.elems]

-----------------------------------------------------------------------------
(* get_dangerous_tag_pairs.  A reference image is [read, has, val]: read   *)
(* is FALSE when find_ref_image finds no file or pydicom.dcmread raises;   *)
(* has[f] tells whether the Dataset holds attribute f and val[f] is its    *)
(* value.                                                                  *)

RefFields == {"PatientID", "SeriesDate"}

RefImage(read, hasId, id, hasDate, date) ==
    [read |-> read,
     has |-> [f \in RefFields |-> IF f = "PatientID" THEN hasId ELSE hasDate],
     val |-> [f \in RefFields |-> IF f = "PatientID" THEN id ELSE date]]

\* line 76: the except clause
ExceptPairs == <<>>

\* The try block with the SeriesDate pair appended before the PatientID pair.
TryPairs_DateFirst(orig, ctp) ==
    IF orig.read /\ ctp.read
       /\ orig.has["PatientID"] /\ ctp.has["PatientID"]
       /\ orig.has["SeriesDate"] /\ ctp.has["SeriesDate"]
    THEN << <<orig.val["SeriesDate"], ctp.val["SeriesDate"]>>,
            <<orig.val["PatientID"], ctp.val["PatientID"]>> >>
    ELSE ExceptPairs

\* The try block with an except clause that keeps the pairs appended so far.
TryPairs_KeepAppended(orig, ctp) ==
    IF ~orig.read \/ ~ctp.read THEN <<>>
    ELSE IF ~(orig.has["PatientID"] /\ ctp.has["PatientID"]) THEN <<>>
    ELSE LET first == << <<orig.val["PatientID"], ctp.val["PatientID"]>> >>
         IN  IF ~(orig.has["SeriesDate"] /\ ctp.has["SeriesDate"]) THEN first
             ELSE Append(first, <<orig.val["SeriesDate"], ctp.val["SeriesDate"]>>)

\* lines 61-76: the try block; the first thing that raises (a dcmread, a
\* missing attribute) gives the pairs appended so far to the except clause.
TryPairs(orig, ctp) ==
    IF ~orig.read THEN ExceptPairs
    ELSE IF ~ctp.read THEN ExceptPairs
    ELSE IF ~(orig.has["PatientID"] /\ ctp.has["PatientID"]) THEN ExceptPairs
    ELSE LET first == << <<orig.val["PatientID"], ctp.val["PatientID"]>> >>
         IN  IF ~(orig.has["SeriesDate"] /\ ctp.has["SeriesDate"]) THEN ExceptPairs
             ELSE Append(first, <<orig.val["SeriesDate"], ctp.val["SeriesDate"]>>)

\* The local variables bound when the try block is left: line 65 binds
\* original_ref_image, and line 66 ctp_ref_image only when line 65 did not
\* raise.
OriginalBound(orig, ctp) == orig.read
CtpBound(orig, ctp) == orig.read /\ ctp.read

\* lines 80-96: one probe; the bare except catches the unbound local as
\* well as the missing attribute.
ProbeFails(bound, image, f) == ~bound \/ ~image.has[f]

IssueIf(fails, name) == IF fails THEN <<name>> ELSE <<>>

\* get_dangerous_tag_pairs, lines 60-98: [pairs, issues]
get_dangerous_tag_pairs(orig, ctp) ==
    LET sensible_tag_pairs == TryPairs(orig, ctp)
        issues ==
            IF sensible_tag_pairs = <<>>
            THEN IssueIf(ProbeFails(OriginalBound(orig, ctp), orig, "PatientID"),
                         "original_ref_image.PatientID")
                 \o IssueIf(ProbeFails(CtpBound(orig, ctp), ctp, "PatientID"),
                            "ctp_ref_image.PatientID")
                 \o IssueIf(ProbeFails(OriginalBound(orig, ctp), orig, "SeriesDate"),
                            "original_ref_image.SeriesDate")
                 \o IssueIf(ProbeFails(CtpBound(orig, ctp), ctp, "SeriesDate"),
                            "ctp_ref_image.SeriesDate")
            ELSE <<>>
    IN  [pairs |-> sensible_tag_pairs, issues |-> issues]

-----------------------------------------------------------------------------
(* The inputs of the substitution engine. *)

FieldChars == {"a", "1", Delim}     \* characters of string values
PatChars == {"a", "1", Delim}       \* characters of the pairs' strings
ItemChars == {"a", "1"}             \* characters of the items of a list

StrValues == StrsOver(FieldChars, MaxLen)
IntValues == (0 - MaxInt)..MaxInt
FloatValues == {[ip |-> i, fr |-> f] : i \in {0, 1, 11}, f \in {<<>>, <<"1">>}}
TagValues == {11, 2134102}
ItemStrs == StrsOver(ItemChars, MaxItem)
ListValues ==
    {<<StrItem(s), StrItem(t)>> : s, t \in ItemStrs}
    \cup {<<IntItem(m), IntItem(n)>> : m, n \in {1, 11}}

Leaves ==
    {StrElem(s) : s \in StrValues} \cup {IntElem(n) : n \in IntValues}
    \cup {FloatElem(f) : f \in FloatValues} \cup {TagElem(n) : n \in TagValues}
    \cup {ListElem(l) : l \in ListValues} \cup {BytesElem}

Marker == StrElem(<<"a", "1">>)

\* The Dataset holding leaf at every level down to d levels of sequences:
\* beside the leaf a sequence of two items, the Dataset of the level below
\* and a Dataset of one string element.
RECURSIVE Nest(_, _)
Nest(leaf, d) ==
    IF d = 0 THEN <<leaf>>
    ELSE <<leaf, SeqElem(<<Nest(leaf, d - 1), <<Marker>>>>)>>

Datasets == {Nest(leaf, MaxDepth) : leaf \in Leaves}

PatStrs == StrsOver(PatChars, MaxPat)

-----------------------------------------------------------------------------
(* main() of clean_series_tags.py, lines 285-293, for one file. *)

\* lines 288-291: one turn of the loop over dangerous_tag_pairs
CleanPair ==
    /\ pc = "clean"
    /\ idx <= Len(pairs)
    /\ LET res == anonymize_tag_recurse(ds, pairs[idx][1], pairs[idx][2])
       IN  /\ ds' = res.ds
           /\ pc' = IF res.raised THEN "raised" ELSE "clean"
    /\ idx' = idx + 1
    /\ UNCHANGED <<ds0, pairs, saved, emitted, refVars, clsVars, batcherVars>>

\* line 293: ctp_dicom_corrected.save_as(ctp_file_path)
Save ==
    /\ pc = "clean"
    /\ idx > Len(pairs)
    /\ saved' = [written |-> TRUE, ds |-> ds]
    /\ pc' = "done"
    /\ UNCHANGED <<ds, ds0, pairs, idx, emitted, refVars, clsVars, batcherVars>>

\* The scripts that read no reference image.
NoReferences ==
    /\ original_ref = RefImage(FALSE, FALSE, <<>>, FALSE, <<>>)
    /\ ctp_ref = RefImage(FALSE, FALSE, <<>>, FALSE, <<>>)
    /\ list_issues = <<>>
    /\ log_file = <<>>

\* The engine applied to one Dataset and one pair.
InitSubst ==
    /\ pc = "clean"
    /\ ds0 \in Datasets
    /\ ds = ds0
    /\ \E o \in PatStrs, r \in PatStrs : pairs = <<<<o, r>>>>
    /\ idx = 1
    /\ saved = [written |-> FALSE, ds |-> <<>>]
    /\ emitted = <<>>
    /\ NoReferences
    /\ NoClassifier
    /\ NoBatcher

NextSubst == CleanPair

SpecSubst == InitSubst /\ [][NextSubst]_vars

\* replace_str_in_number applied to a number field and a pair of digit
\* strings (lines 193-195 on a Dataset of one int or float element).
DigitChars == {"0", "1", "2"}
DigitStrs == StrsOver(DigitChars, MaxPat)
NumberLeaves ==
    {IntElem(n) : n \in IntValues}
    \cup {FloatElem([ip |-> i, fr |-> f]) : i \in 0..MaxInt, f \in {<<>>, <<"1">>, <<"2">>}}

InitNumber ==
    /\ pc = "clean"
    /\ ds0 \in {<<leaf>> : leaf \in NumberLeaves}
    /\ ds = ds0
    /\ \E o \in DigitStrs, r \in DigitStrs : pairs = <<<<o, r>>>>
    /\ idx = 1
    /\ saved = [written |-> FALSE, ds |-> <<>>]
    /\ emitted = <<>>
    /\ NoReferences
    /\ NoClassifier
    /\ NoBatcher

SpecNumber == InitNumber /\ [][NextSubst]_vars

-----------------------------------------------------------------------------
(* main() of clean_series_tags.py for one subject and one of its files:    *)
(* the pairs are extracted from the two reference images, then applied to  *)
(* the file in order.                                                      *)

IdStrs == StrsOver({"a", "1"}, MaxRef)
DateStrs == StrsOver({"1", "2"}, MaxRef)

RefImages ==
    {RefImage(FALSE, FALSE, <<>>, FALSE, <<>>)}
    \cup {RefImage(TRUE, TRUE, id, TRUE, date) : id \in IdStrs, date \in DateStrs}
    \cup {RefImage(TRUE, FALSE, <<>>, TRUE, date) : date \in DateStrs}
    \cup {RefImage(TRUE, TRUE, id, FALSE, <<>>) : id \in IdStrs}
    \cup {RefImage(TRUE, FALSE, <<>>, FALSE, <<>>)}

CleanLeaves ==
    {StrElem(s) : s \in StrsOver({"a", "1", "2"}, MaxPat)}
    \cup {IntElem(n) : n \in 0..MaxInt}

CleanDatasets == {Nest(leaf, d) : leaf \in CleanLeaves, d \in 0..1}

\* lines 270-279: the pairs and the issues, and the issue log
Extract ==
    /\ pc = "extract"
    /\ LET res == get_dangerous_tag_pairs(original_ref, ctp_ref)
       IN  /\ pairs' = res.pairs
           /\ list_issues' = res.issues
           /\ log_file' = IF Len(res.issues) > 0
                          THEN Append(log_file, res.issues)
                          ELSE log_file
    /\ pc' = "clean"
    /\ UNCHANGED <<ds, ds0, idx, saved, emitted, original_ref, ctp_ref, clsVars, batcherVars>>

InitClean ==
    /\ pc = "extract"
    /\ original_ref \in RefImages
    /\ ctp_ref \in RefImages
    /\ ds0 \in CleanDatasets
    /\ ds = ds0
    /\ pairs = <<>>
    /\ idx = 1
    /\ saved = [written |-> FALSE, ds |-> <<>>]
    /\ emitted = <<>>
    /\ list_issues = <<>>
    /\ log_file = <<>>
    /\ NoClassifier
    /\ NoBatcher

NextClean == Extract \/ CleanPair \/ Save

SpecClean == InitClean /\ [][NextClean]_vars

-----------------------------------------------------------------------------
(* delete_identifiable_dicom_file.  The header is a function from the five *)
(* attribute names to [present, multi, items]: a single-valued attribute   *)
(* has the str items[1] as its value, a multi-valued one the MultiValue    *)
(* of its items.                                                           *)

S_SR == <<"S", "R">>
S_CT == <<"C", "T">>
S_MR == <<"M", "R">>
S_SCREEN_SAVE == <<"S", "C", "R", "E", "E", "N", " ", "S", "A", "V", "E">>
S_DISPLAY == <<"D", "I", "S", "P", "L", "A", "Y">>
S_LOCALIZER == <<"L", "O", "C", "A", "L", "I", "Z", "E", "R">>
S_OTHER == <<"O", "T", "H", "E", "R">>
S_SECONDARY == <<"S", "E", "C", "O", "N", "D", "A", "R", "Y">>
S_ORIGINAL == <<"O", "R", "I", "G", "I", "N", "A", "L">>
S_PRIMARY == <<"P", "R", "I", "M", "A", "R", "Y">>
S_DERIVED == <<"D", "E", "R", "I", "V", "E", "D">>
S_tfl3d == <<"t", "f", "l", "3", "d">>
S_fl2d == <<"f", "l", "2", "d">>
S_ir == <<"i", "r">>
S_Scout == <<"S", "c", "o", "u", "t">>
S_localizer == <<"l", "o", "c", "a", "l", "i", "z", "e", "r">>
S_morpho == <<"m", "o", "r", "p", "h", "o">>
S_DEV == <<"D", "E", "V">>
S_report == <<"r", "e", "p", "o", "r", "t">>
S_AAhead == <<"A", "A", "h", "e", "a", "d">>
S_rapid == <<"r", "a", "p", "i", "d">>
S_KEY_IMAGES == <<"K", "E", "Y", "_", "I", "M", "A", "G", "E", "S">>
S_t1_mprage == <<"t", "1", "_", "m", "p", "r", "a", "g", "e">>
S_SCOUT == <<"S", "C", "O", "U", "T">>
S_Report == <<"R", "e", "p", "o", "r", "t">>
S_t2_tse == <<"t", "2", "_", "t", "s", "e">>
S_tfl3d1_16ns == <<"*", "t", "f", "l", "3", "d", "1", "_", "1", "6", "n", "s">>
S_tir2d1_15 == <<"*", "t", "i", "r", "2", "d", "1", "_", "1", "5">>
S_SPCIR == <<"S", "P", "C", "I", "R", "_", "2", "7", "8", "n", "s">>
S_epfid2d1 == <<"*", "e", "p", "f", "i", "d", "2", "d", "1", "_", "6", "4">>

IMAGETYPES_TO_REMOVE == <<S_SCREEN_SAVE, S_DISPLAY, S_LOCALIZER, S_OTHER>>
T1W_TO_REMOVE == <<S_tfl3d, S_fl2d>>

Attributes == {"Modality", "ImageType", "ProtocolName", "SeriesDescription", "SequenceName"}

Absent == [present |-> FALSE, multi |-> FALSE, items |-> <<>>]
Single(s) == [present |-> TRUE, multi |-> FALSE, items |-> <<s>>]
Multi(items) == [present |-> TRUE, multi |-> TRUE, items |-> items]

UpperCase == <<"A", "B", "C", "D", "E", "F", "G", "H", "I", "J", "K", "L", "M",
               "N", "O", "P", "Q", "R", "S", "T", "U", "V", "W", "X", "Y", "Z">>
LowerCase == <<"a", "b", "c", "d", "e", "f", "g", "h", "i", "j", "k", "l", "m",
               "n", "o", "p", "q", "r", "s", "t", "u", "v", "w", "x", "y", "z">>

ToLower(c) ==
    IF \E i \in 1..26 : UpperCase[i] = c
    THEN LowerCase[CHOOSE i \in 1..26 : UpperCase[i] = c]
    ELSE c

LowerStr(s) == [i \in 1..Len(s) |-> ToLower(s[i])]

\* "<name>" in attributes  (line 59: attributes = dataset.dir(""))
InAttributes(hdr, name) == hdr[name].present

\* x in dataset.data_element(name).value: the substring test on a str
\* value, the membership test on a MultiValue.
InValue(x, value) ==
    IF value.multi THEN \E i \in 1..Len(value.items) : value.items[i] = x
    ELSE StrContains(value.items[1], x)

\* x in dataset.data_element(name), lines 129 and 139, without .value: the
\* DataElement is iterated through its __getitem__, over the items of a
\* MultiValue and over the characters of a str value.
InDataElement(x, value) ==
    IF value.multi THEN \E i \in 1..Len(value.items) : value.items[i] = x
    ELSE \E i \in 1..Len(value.items[1]) : <<value.items[1][i]>> = x

\* re.compile("(?i).*(w1|w2).*").search(text) is not None
ReSearch(alternatives, text) ==
    \E i \in 1..Len(alternatives) : StrContains(LowerStr(text), LowerStr(alternatives[i]))

\* any([this in dataset.data_element(name).value for this in deny_list])
AnyInValue(deny_list, value) == \E i \in 1..Len(deny_list) : InValue(deny_list[i], value)

\* lines 60-62
ClsModality ==
    /\ pc = "Modality"
    /\ IF InAttributes(dataset, "Modality")
       THEN /\ evaluated' = Append(evaluated, 1)
            /\ IF InValue(S_SR, dataset["Modality"])
               THEN delete_this_file' = TRUE /\ fired' = Append(fired, 1)
               ELSE UNCHANGED <<delete_this_file, fired>>
       ELSE UNCHANGED <<evaluated, delete_this_file, fired>>
    /\ pc' = "ImageType"
    /\ UNCHANGED <<dataset, delete_T1w, delete_T2w, file_exists, substData, refVars, batcherVars>>

\* lines 64-76: the deny-list of image types, then SECONDARY and CT; the
\* second test looks Modality up without having checked that it is there.
ClsImageType ==
    /\ pc = "ImageType"
    /\ IF ~delete_this_file /\ InAttributes(dataset, "ImageType")
       THEN LET rule2 == AnyInValue(IMAGETYPES_TO_REMOVE, dataset["ImageType"])
                secondary == InValue(S_SECONDARY, dataset["ImageType"])
                keyError == secondary /\ ~InAttributes(dataset, "Modality")
                rule3 == secondary /\ ~keyError /\ InValue(S_CT, dataset["Modality"])
            IN  /\ evaluated' = evaluated \o <<2, 3>>
                /\ delete_this_file' = (rule2 \/ rule3)
                /\ fired' = fired \o (IF rule2 THEN <<2>> ELSE <<>>)
                                  \o (IF rule3 THEN <<3>> ELSE <<>>)
                /\ pc' = IF keyError THEN "raised" ELSE "ProtocolName"
       ELSE /\ pc' = "ProtocolName"
            /\ UNCHANGED <<evaluated, delete_this_file, fired>>
    /\ UNCHANGED <<dataset, delete_T1w, delete_T2w, file_exists, substData, refVars, batcherVars>>

\* The protocol name tested although an earlier rule has matched.
ClsProtocolName_NoGuard ==
    /\ pc = "ProtocolName"
    /\ IF InAttributes(dataset, "ProtocolName")
       THEN /\ evaluated' = Append(evaluated, 4)
            /\ IF ReSearch(<<S_Scout, S_localizer>>, dataset["ProtocolName"].items[1])
               THEN delete_this_file' = TRUE /\ fired' = Append(fired, 4)
               ELSE UNCHANGED <<delete_this_file, fired>>
       ELSE UNCHANGED <<evaluated, delete_this_file, fired>>
    /\ pc' = "SeriesDescription"
    /\ UNCHANGED <<dataset, delete_T1w, delete_T2w, file_exists, substData, refVars, batcherVars>>

\* lines 78-81
ClsProtocolName ==
    /\ pc = "ProtocolName"
    /\ IF ~delete_this_file /\ InAttributes(dataset, "ProtocolName")
       THEN /\ evaluated' = Append(evaluated, 4)
            /\ IF ReSearch(<<S_Scout, S_localizer>>, dataset["ProtocolName"].items[1])
               THEN delete_this_file' = TRUE /\ fired' = Append(fired, 4)
               ELSE UNCHANGED <<delete_this_file, fired>>
       ELSE UNCHANGED <<evaluated, delete_this_file, fired>>
    /\ pc' = "SeriesDescription"
    /\ UNCHANGED <<dataset, delete_T1w, delete_T2w, file_exists, substData, refVars, batcherVars>>

\* lines 83-118: the five patterns of the series description
ClsSeriesDescription ==
    /\ pc = "SeriesDescription"
    /\ IF ~delete_this_file /\ InAttributes(dataset, "SeriesDescription")
       THEN LET text == dataset["SeriesDescription"].items[1]
            IN  /\ evaluated' = Append(evaluated, 5)
                /\ IF \/ ReSearch(<<S_morpho, S_DEV>>, text)
                      \/ ReSearch(<<S_report>>, text)
                      \/ ReSearch(<<S_AAhead>>, text)
                      \/ ReSearch(<<S_rapid>>, text)
                      \/ ReSearch(<<S_KEY_IMAGES>>, text)
                   THEN delete_this_file' = TRUE /\ fired' = Append(fired, 5)
                   ELSE UNCHANGED <<delete_this_file, fired>>
       ELSE UNCHANGED <<evaluated, delete_this_file, fired>>
    /\ pc' = "T1w"
    /\ UNCHANGED <<dataset, delete_T1w, delete_T2w, file_exists, substData, refVars, batcherVars>>

\* lines 120-130
ClsT1w ==
    /\ pc = "T1w"
    /\ IF ~delete_this_file /\ delete_T1w
          /\ InAttributes(dataset, "SequenceName") /\ InAttributes(dataset, "ImageType")
       THEN /\ evaluated' = Append(evaluated, 6)
            /\ IF /\ AnyInValue(T1W_TO_REMOVE, dataset["SequenceName"])
                  /\ InDataElement(S_ORIGINAL, dataset["ImageType"])
               THEN delete_this_file' = TRUE /\ fired' = Append(fired, 6)
               ELSE UNCHANGED <<delete_this_file, fired>>
       ELSE UNCHANGED <<evaluated, delete_this_file, fired>>
    /\ pc' = "T2w"
    /\ UNCHANGED <<dataset, delete_T1w, delete_T2w, file_exists, substData, refVars, batcherVars>>

\* lines 132-140
ClsT2w ==
    /\ pc = "T2w"
    /\ IF ~delete_this_file /\ delete_T2w
          /\ InAttributes(dataset, "SequenceName") /\ InAttributes(dataset, "ImageType")
       THEN /\ evaluated' = Append(evaluated, 7)
            /\ IF /\ InValue(S_ir, dataset["SequenceName"])
                  /\ InDataElement(S_ORIGINAL, dataset["ImageType"])
               THEN delete_this_file' = TRUE /\ fired' = Append(fired, 7)
               ELSE UNCHANGED <<delete_this_file, fired>>
       ELSE UNCHANGED <<evaluated, delete_this_file, fired>>
    /\ pc' = "remove"
    /\ UNCHANGED <<dataset, delete_T1w, delete_T2w, file_exists, substData, refVars, batcherVars>>

\* The file removed whatever the decision.
ClsRemove_Always ==
    /\ pc = "remove"
    /\ file_exists' = FALSE
    /\ pc' = "returned"
    /\ UNCHANGED <<dataset, delete_T1w, delete_T2w, delete_this_file, evaluated, fired,
                   substData, refVars, batcherVars>>

\* lines 142-145
ClsRemove ==
    /\ pc = "remove"
    /\ file_exists' = IF delete_this_file THEN FALSE ELSE file_exists
    /\ pc' = "returned"
    /\ UNCHANGED <<dataset, delete_T1w, delete_T2w, delete_this_file, evaluated, fired,
                   substData, refVars, batcherVars>>

ModalityValues == {Absent, Single(S_MR), Single(S_CT), Single(S_SR)}
ImageTypeValues ==
    {Absent, Single(S_ORIGINAL), Multi(<<S_ORIGINAL, S_PRIMARY>>),
     Multi(<<S_DERIVED, S_SECONDARY>>), Multi(<<S_DERIVED, S_SECONDARY, S_OTHER>>),
     Multi(<<S_ORIGINAL, S_PRIMARY, S_LOCALIZER>>), Multi(<<S_ORIGINAL, S_PRIMARY, S_localizer>>)}
ProtocolNameValues == {Absent, Single(S_t1_mprage), Single(S_localizer), Single(S_SCOUT)}
SeriesDescriptionValues == {Absent, Single(S_t2_tse), Single(S_Report)}
SequenceNameValues ==
    {Absent, Single(S_tfl3d), Single(S_tfl3d1_16ns), Single(S_tir2d1_15), Single(S_SPCIR),
     Single(S_epfid2d1)}

\* line 56, the file read and delete_this_file = False
InitClassify ==
    /\ pc = "Modality"
    /\ \E m \in ModalityValues, it \in ImageTypeValues, pn \in ProtocolNameValues,
          sd \in SeriesDescriptionValues, sn \in SequenceNameValues :
            dataset = [a \in Attributes |->
                        CASE a = "Modality" -> m
                          [] a = "ImageType" -> it
                          [] a = "ProtocolName" -> pn
                          [] a = "SeriesDescription" -> sd
                          [] a = "SequenceName" -> sn]
    /\ delete_T1w \in BOOLEAN
    /\ delete_T2w \in BOOLEAN
    /\ delete_this_file = FALSE
    /\ evaluated = <<>>
    /\ fired = <<>>
    /\ file_exists = TRUE
    /\ NoSubst
    /\ NoReferences
    /\ NoBatcher

NextClassify ==
    \/ ClsModality
    \/ ClsImageType
    \/ ClsProtocolName
    \/ ClsSeriesDescription
    \/ ClsT1w
    \/ ClsT2w
    \/ ClsRemove

SpecClassify == InitClassify /\ [][NextClassify]_vars

-----------------------------------------------------------------------------
(* tml_ctp/cli/ctp_dat_batcher.py: the slice sorter.  A file is the record  *)
(* [file, hasPosition, position, hasOrientation, orientation] of what       *)
(* pydicom.dcmread finds in it: ImagePositionPatient (three numbers) and    *)
(* ImageOrientationPatient (six numbers).  The numbers are integers, for    *)
(* which the float arithmetic of numpy is exact.                            *)

\* np.cross(x, y)
Cross(x, y) ==
    <<x[2] * y[3] - x[3] * y[2], x[3] * y[1] - x[1] * y[3], x[1] * y[2] - x[2] * y[1]>>

\* np.dot(u, v)
Dot(u, v) == u[1] * v[1] + u[2] * v[2] + u[3] * v[3]

\* position - scan_origin
Minus(u, v) == <<u[1] - v[1], u[2] - v[2], u[3] - v[3]>>

\* The direction taken with the two in-plane vectors exchanged.
ScanAxis_Reversed(ref) == Cross(SubSeq(ref.orientation, 4, 6), SubSeq(ref.orientation, 1, 3))

\* lines 523-526: the out-of-plane direction of the reference file
ScanAxis(ref) == Cross(SubSeq(ref.orientation, 1, 3), SubSeq(ref.orientation, 4, 6))

\* lines 531-535: dist of one file
Dist(file, ref) == Dot(Minus(file.position, ref.position), ScanAxis(ref))

\* An entry put before the entries of the same distance.
RECURSIVE InsertByDist_BeforeEqual(_, _)
InsertByDist_BeforeEqual(entry, done) ==
    IF done = <<>> THEN <<entry>>
    ELSE IF entry.dist <= Head(done).dist THEN <<entry>> \o done
    ELSE <<Head(done)>> \o InsertByDist_BeforeEqual(entry, Tail(done))

\* line 538, sorted(sort_list, key=lambda x: x[1]): a stable sort, each
\* entry put after the entries of a distance not greater than its own.
RECURSIVE InsertByDist(_, _)
InsertByDist(entry, done) ==
    IF done = <<>> THEN <<entry>>
    ELSE IF entry.dist < Head(done).dist THEN <<entry>> \o done
    ELSE <<Head(done)>> \o InsertByDist(entry, Tail(done))

\* The entries in increasing order, those of one distance turned round.
RECURSIVE SortedByDist_TiesReversed(_)
SortedByDist_TiesReversed(sort_list) ==
    IF sort_list = <<>> THEN <<>>
    ELSE InsertByDist_BeforeEqual(sort_list[Len(sort_list)],
            SortedByDist_TiesReversed(SubSeq(sort_list, 1, Len(sort_list) - 1)))

RECURSIVE SortedByDist(_)
SortedByDist(sort_list) ==
    IF sort_list = <<>> THEN <<>>
    ELSE InsertByDist(sort_list[Len(sort_list)],
                      SortedByDist(SubSeq(sort_list, 1, Len(sort_list) - 1)))

\* get_sorted_image_files, lines 504-543: [raised, files].  The first file
\* is read for ImagePositionPatient and ImageOrientationPatient (lines
\* 518-520), every file for ImagePositionPatient (lines 531-532); a missing
\* attribute raises AttributeError.
get_sorted_image_files(paths) ==
    IF Len(paths) = 0 THEN [raised |-> FALSE, files |-> paths]
    ELSE LET ref == paths[1]
         IN  IF ~ref.hasPosition \/ ~ref.hasOrientation
                  \/ \E i \in 1..Len(paths) : ~paths[i].hasPosition
             THEN [raised |-> TRUE, files |-> <<>>]
             ELSE LET sort_list == [i \in 1..Len(paths) |->
                                        [file |-> paths[i], dist |-> Dist(paths[i], ref)]]
                      sorted_files == SortedByDist(sort_list)
                  IN  [raised |-> FALSE,
                       files |-> [i \in 1..Len(sorted_files) |-> sorted_files[i].file]]

MaxFiles == 3      \* most files of a series

NoVector == <<>>
PositionValues == {NoVector, <<0, 0, 0 - 5>>, <<0, 0, 0>>, <<0, 0, 10>>, <<3, 0, 0>>}
\* axial and sagittal slices
OrientationValues == {NoVector, <<1, 0, 0, 0, 1, 0>>, <<0, 1, 0, 0, 0, 0 - 1>>}

ImageFile(i, position, orientation) ==
    [file |-> i,
     hasPosition |-> position # NoVector, position |-> position,
     hasOrientation |-> orientation # NoVector, orientation |-> orientation]

\* The files of a series of n files, of the positions and orientations given.
SeriesFiles(n, positions, orientations) ==
    [i \in 1..n |-> ImageFile(i, positions[i], orientations[i])]

\* line 486 of check_and_rename_dicom_files: sorted_file_paths =
\* get_sorted_image_files(file_paths)
SortFiles ==
    /\ pc = "sort"
    /\ LET out == get_sorted_image_files(file_paths)
       IN  /\ sorted_file_paths' = out.files
           /\ pc' = IF out.raised THEN "raised" ELSE "sorted"
    /\ UNCHANGED <<file_paths, resorted_file_paths, substData, refVars, clsVars, datVars, moreVars>>

\* The sorter given its own result.
SortAgain ==
    /\ pc = "sorted"
    /\ LET out == get_sorted_image_files(sorted_file_paths)
       IN  /\ resorted_file_paths' = out.files
           /\ pc' = IF out.raised THEN "raised again" ELSE "resorted"
    /\ UNCHANGED <<file_paths, sorted_file_paths, substData, refVars, clsVars, datVars, moreVars>>

InitSort ==
    /\ pc = "sort"
    /\ \E n \in 0..MaxFiles :
        \E positions \in [1..n -> PositionValues], orientations \in [1..n -> OrientationValues] :
            file_paths = SeriesFiles(n, positions, orientations)
    /\ sorted_file_paths = <<>>
    /\ resorted_file_paths = <<>>
    /\ NoDat
    /\ NoWorkers
    /\ NoRename
    /\ NoDriver
    /\ NoSubst
    /\ NoReferences
    /\ NoClassifier

NextSort == SortFiles \/ SortAgain

SpecSort == InitSort /\ [][NextSort]_vars

-----------------------------------------------------------------------------
(* tml_ctp/cli/ctp_dat_batcher.py: update_dat_script_file.  A line of a DAT *)
(* script is the record [kind, text, num]: the kind says which of the       *)
(* substrings that the function looks for the line contains, text and num   *)
(* are the value between its tags.                                          *)

Line(kind, text, num) == [kind |-> kind, text |-> text, num |-> num]

\* The substrings looked for that a line of each kind contains.
MarkersOf(kind) ==
    CASE kind = "dateinc" -> {"DATEINC"}
      [] kind = "dateinc_end" -> {"DATEINC", "</script>"}
      [] kind = "end" -> {"</script>"}
      [] kind = "pid" -> {"n=PatientID"}
      [] kind = "pname" -> {"n=PatientName"}
      [] kind = "uidroot" -> {"t=UIDROOT"}
      [] kind = "suid" -> {"n=SeriesInstanceUID"}
      [] OTHER -> {}

\* marker in line
InLine(marker, line) == marker \in MarkersOf(line.kind)

\* next((i for i, line in enumerate(lines) if marker in line), None), the
\* index counted from 1 and None being 0
IndexOfLine(marker, lines) ==
    IF \E i \in 1..Len(lines) : InLine(marker, lines[i])
    THEN CHOOSE i \in 1..Len(lines) :
            /\ InLine(marker, lines[i])
            /\ \A j \in 1..(i - 1) : ~InLine(marker, lines[j])
    ELSE 0

\* The line appended to the end of the list.
ListInsert_AtEnd(lines, index, line) == Append(lines, line)

\* lines.insert(index, line), the index counted from 1
ListInsert(lines, index, line) ==
    SubSeq(lines, 1, index - 1) \o <<line>> \o SubSeq(lines, index, Len(lines))

\* lines 239-247, 253-261, 281-292: the line of a field overwritten where
\* it is, or inserted at end_script_index; list.insert raises TypeError for
\* the index None.
PutField(st, marker, line, end_script_index) ==
    IF st.raised # "no" THEN st
    ELSE LET i == IndexOfLine(marker, st.lines)
         IN  IF i # 0 THEN [st EXCEPT !.lines[i] = line]
             ELSE IF end_script_index = 0 THEN [st EXCEPT !.raised = "TypeError"]
             ELSE [st EXCEPT !.lines = ListInsert(st.lines, end_script_index, line)]

\* lines 263-276: the prefix of the UID, from the UIDROOT line or the
\* default one, whose line is then inserted at end_script_index
PutUidRoot(st, end_script_index) ==
    IF st.raised # "no" THEN st
    ELSE IF IndexOfLine("t=UIDROOT", st.lines) # 0 THEN st
    ELSE IF end_script_index = 0 THEN [st EXCEPT !.raised = "TypeError"]
    ELSE [st EXCEPT !.lines = ListInsert(st.lines, end_script_index,
                                        Line("uidroot", "default_uidroot", 0))]

UidPrefix(lines) ==
    IF IndexOfLine("t=UIDROOT", lines) # 0
    THEN lines[IndexOfLine("t=UIDROOT", lines)].text
    ELSE "default_uidroot"

\* The lines written by update_dat_script_file for the lines read, lines
\* 221-294, with the values drawn at random given: [raised, lines, uid].
UpdatedLines(lines, new_patient_id, dateinc, new_patient_name, uid_draw) ==
    LET end_script_index == IndexOfLine("</script>", lines)
    IN  IF Len(lines) < 2 THEN [raised |-> "IndexError", lines |-> lines, uid |-> "none"]
        ELSE IF ~InLine("DATEINC", lines[2])
        THEN [raised |-> "ValueError", lines |-> lines, uid |-> "none"]
        ELSE LET st0 == [raised |-> "no", uid |-> "none",
                         lines |-> [lines EXCEPT ![2] = Line("dateinc", "", dateinc)]]
                 st1 == PutField(st0, "n=PatientID", Line("pid", new_patient_id, 0),
                                 end_script_index)
                 st2 == PutField(st1, "n=PatientName", Line("pname", new_patient_name, 0),
                                 end_script_index)
                 new_series_uid == UidPrefix(st2.lines) \o "." \o uid_draw
                 st3 == PutUidRoot(st2, end_script_index)
                 st4 == PutField(st3, "n=SeriesInstanceUID", Line("suid", new_series_uid, 0),
                                 end_script_index)
             IN  IF st4.raised # "no" THEN [st4 EXCEPT !.lines = lines]
                 ELSE [st4 EXCEPT !.uid = new_series_uid]

MaxRest == 2       \* most lines of a template after its second line
MaxSuffix == 2     \* number of values of random_with_N_digits(8)

RECURSIVE SeqsOver(_, _)
SeqsOver(A, n) ==
    IF n = 0 THEN {<<>>}
    ELSE LET shorter == SeqsOver(A, n - 1)
         IN  shorter \cup {Append(q, a) : q \in {t \in shorter : Len(t) = n - 1}, a \in A}

\* A line of a template, of the kind given.
TemplateLine(kind) ==
    CASE kind \in {"dateinc", "dateinc_end"} -> Line(kind, "", 0 - 26)
      [] kind = "uidroot" -> Line(kind, "template_uidroot", 0)
      [] kind \in {"pid", "pname", "suid"} -> Line(kind, "old", 0)
      [] OTHER -> Line(kind, "", 0)

\* The templates: none or one line; else a first line, a second line that
\* holds DATEINC or not, and any lines after them.
Templates ==
    {<<>>, <<TemplateLine("other")>>, <<TemplateLine("dateinc")>>}
    \cup {<<TemplateLine(k0), TemplateLine(k1)>> \o [i \in 1..Len(rest) |-> TemplateLine(rest[i])] :
            k0 \in {"other", "end"},
            k1 \in {"dateinc", "other", "dateinc_end"},
            rest \in SeqsOver({"other", "pid", "pname", "uidroot", "suid", "end"}, MaxRest)}

NoFile == [exists |-> FALSE, lines |-> <<>>]
File(lines) == [exists |-> TRUE, lines |-> lines]

\* An offset drawn from a range one wider at each end.
RandintValues_Wider == {0 - 31, 0, 31}

\* random.randint(-30, 30): the two ends of the range and its middle
RandintValues == {0 - 30, 0, 30}
\* the values of the caller: none, or a subject identifier; none, or an offset
PatientIdArgs == {"None", "sub-01"}
DateincArgs == {[given |-> FALSE, v |-> 0], [given |-> TRUE, v |-> 45]}

NoResult ==
    [raised |-> "not called", new_patient_id |-> "", new_patient_name |-> "",
     new_series_uid |-> "", dateinc |-> 0, new_dat_script |-> 0]

\* The file written at the template path.
UpdateDatScript_InPlace(next_pc) ==
    \E random_suffix \in 1..MaxSuffix, id_arg \in PatientIdArgs, inc_arg \in DateincArgs,
       drawn \in RandintValues :
        LET dateinc == IF inc_arg.given THEN inc_arg.v ELSE drawn
            new_patient_id == IF id_arg = "None" THEN "uuid4-id" ELSE id_arg
            out == UpdatedLines(original_dat_script, new_patient_id, dateinc, "uuid4-name", "uid")
        IN  /\ original_dat_script' = out.lines
            /\ UNCHANGED temp_dir
            /\ dat_args' = [new_patient_id |-> id_arg, dateinc |-> inc_arg]
            /\ dat_result' =
                IF out.raised # "no" THEN [NoResult EXCEPT !.raised = out.raised]
                ELSE [raised |-> "no", new_patient_id |-> new_patient_id,
                      new_patient_name |-> "uuid4-name", new_series_uid |-> out.uid,
                      dateinc |-> dateinc, new_dat_script |-> random_suffix]
            /\ pc' = next_pc
            /\ UNCHANGED <<original_bytes, substData, refVars, clsVars, sortVars, moreVars>>

\* update_dat_script_file, lines 185-305: the template copied to
\* temp_dir/anonymizer_<random_suffix>.script (lines 213-218), the copy read
\* (220-222), its lines changed (224-294) and written back (296-297).  When
\* the call raises, the copy stays as it was made.
UpdateDatScript(next_pc) ==
    \E random_suffix \in 1..MaxSuffix, id_arg \in PatientIdArgs, inc_arg \in DateincArgs,
       drawn \in RandintValues :
        LET dateinc == IF inc_arg.given THEN inc_arg.v ELSE drawn
            new_patient_id == IF id_arg = "None" THEN "uuid4-id" ELSE id_arg
            copied == original_dat_script
            out == UpdatedLines(copied, new_patient_id, dateinc, "uuid4-name", "uid")
        IN  /\ temp_dir' = [temp_dir EXCEPT ![random_suffix] = File(out.lines)]
            /\ dat_args' = [new_patient_id |-> id_arg, dateinc |-> inc_arg]
            /\ dat_result' =
                IF out.raised # "no" THEN [NoResult EXCEPT !.raised = out.raised]
                ELSE [raised |-> "no", new_patient_id |-> new_patient_id,
                      new_patient_name |-> "uuid4-name", new_series_uid |-> out.uid,
                      dateinc |-> dateinc, new_dat_script |-> random_suffix]
            /\ pc' = next_pc
            /\ UNCHANGED <<original_dat_script, original_bytes, substData, refVars, clsVars,
                           sortVars, moreVars>>

\* Two calls on the same template, one after the other.
FirstCall == pc = "first call" /\ UpdateDatScript("second call")
SecondCall == pc = "second call" /\ UpdateDatScript("done")

InitDat ==
    /\ pc = "first call"
    /\ original_dat_script \in Templates
    /\ original_bytes = original_dat_script
    /\ temp_dir = [suffix \in 1..MaxSuffix |-> NoFile]
    /\ dat_args = [new_patient_id |-> "None", dateinc |-> [given |-> FALSE, v |-> 0]]
    /\ dat_result = NoResult
    /\ NoSort
    /\ NoWorkers
    /\ NoRename
    /\ NoDriver
    /\ NoSubst
    /\ NoReferences
    /\ NoClassifier

NextDat == FirstCall \/ SecondCall

SpecDat == InitDat /\ [][NextDat]_vars

-----------------------------------------------------------------------------
(* Properties of the substitution engine. *)

\* The engine has returned from its call with the first pair.
Returned == idx = 2 /\ pc = "clean"
PairO == pairs[1][1]
PairR == pairs[1][2]

\* The text of a number element.
ElemNumberText(e) == NumberToStr([type |-> e.type, n |-> e.n, fr |-> e.fr])

\* o occurs in the value of element e: in a component of a str value, in
\* the decimal text of a number, in an item of a list, or below a sequence.
RECURSIVE OccursInDataset(_, _)
OccursInElem(e, o) ==
    CASE e.VR = "SQ" -> \E j \in 1..Len(e.sq) : OccursInDataset(e.sq[j], o)
      [] e.VR # "SQ" /\ e.type = "str" ->
            \E k \in 1..Len(StrSplit(e.s)) : StrContains(StrSplit(e.s)[k], o)
      [] e.VR # "SQ" /\ IsNumberType(e.type) -> StrContains(ElemNumberText(e), o)
      [] e.VR # "SQ" /\ e.type = "list" ->
            \E k \in 1..Len(e.list) :
                StrContains(IF e.list[k].type = "str" THEN e.list[k].s
                            ELSE IntToStr(e.list[k].n), o)
      [] OTHER -> FALSE

OccursInDataset(d, o) == \E i \in 1..Len(d) : OccursInElem(d[i], o)

CharsOf(s) == {s[i] : i \in 1..Len(s)}

\* C1: after the engine is applied with (o, r), o occurs in no field at any
\* depth: not in a string, a component of a delimiter-joined string, an
\* item of a list, or a number.  Stated for a non-empty o and an r sharing
\* no character with o, where a textual replacement cannot bring o back.
C1_NoOccurrenceLeft ==
    (Returned /\ PairO # <<>> /\ CharsOf(PairO) \cap CharsOf(PairR) = {})
        => ~OccursInDataset(ds, PairO)

\* C2: when o occurs in no field of the Dataset, the engine returns it with
\* every field, at every depth, keeping its value and its kind.
C2_NoOpWhenAbsent ==
    (idx = 2 /\ ~OccursInDataset(ds0, PairO)) => (pc = "clean" /\ ds = ds0)

C2_Witness ==
    /\ Returned
    /\ ~OccursInDataset(ds0, PairO)
    /\ PairO = <<"1", "1">>
    /\ ds0 = Nest(IntElem(2), 2)
    /\ ds = ds0

\* Every str element of d1 has the components of the element of d0 at the
\* same place with o replaced by r, one for one.
RECURSIVE ComponentsReplaced(_, _, _, _)
ComponentsReplaced(d0, d1, o, r) ==
    /\ Len(d0) = Len(d1)
    /\ \A i \in 1..Len(d0) :
        IF d0[i].VR = "SQ"
        THEN /\ Len(d0[i].sq) = Len(d1[i].sq)
             /\ \A j \in 1..Len(d0[i].sq) :
                    ComponentsReplaced(d0[i].sq[j], d1[i].sq[j], o, r)
        ELSE (d0[i].type = "str" /\ StrContains(d0[i].s, <<Delim>>)) =>
                LET p0 == StrSplit(d0[i].s)
                    p1 == StrSplit(d1[i].s)
                IN  /\ Len(p1) = Len(p0)
                    /\ \A k \in 1..Len(p0) : p1[k] = StrReplace(p0[k], o, r)

\* C3: a delimiter-joined string of k components still has k components
\* after the substitution of a pair whose r holds no delimiter, and its
\* i-th component is the i-th component of the input with o replaced by r.
C3_CardinalityPreserved ==
    (Returned /\ ~StrContains(PairR, <<Delim>>))
        => ComponentsReplaced(ds0, ds, PairO, PairR)

C3_Witness ==
    /\ Returned
    /\ ds0 = Nest(StrElem(<<"a", Delim, "1">>), 2)
    /\ PairO = <<"a">>
    /\ PairR = <<"1", "1">>
    /\ ds[1] = StrElem(<<"1", "1", Delim, "1">>)
    /\ ds[2].sq[1][2].sq[1] = <<StrElem(<<"1", "1", Delim, "1">>)>>
    /\ ds[2].sq[2] = <<StrElem(<<"1", "1", "1">>)>>

\* Every str element of d1 has as many delimiter-separated components as
\* the element of d0 at the same place.
RECURSIVE SameCardinality(_, _)
SameCardinality(d0, d1) ==
    \A i \in 1..Len(d0) :
        IF d0[i].VR = "SQ"
        THEN \A j \in 1..Len(d0[i].sq) : SameCardinality(d0[i].sq[j], d1[i].sq[j])
        ELSE d0[i].type = "str" => Len(StrSplit(d1[i].s)) = Len(StrSplit(d0[i].s))

\* C4: the engine never silently returns a field whose number of
\* delimiter-separated components differs from the input field's: where the
\* number differs (r holding the delimiter), a warning has been issued.
C4_NoSilentCardinalityChange ==
    Returned => (emitted # <<>> \/ SameCardinality(ds0, ds))

C4_Witness ==
    /\ Returned
    /\ ds0 = Nest(StrElem(<<"a", Delim, "1">>), 2)
    /\ PairO = <<"a">>
    /\ PairR = <<"1", Delim>>
    /\ ds[1] = StrElem(<<"1", Delim, Delim, "1">>)
    /\ emitted = <<>>

\* A non-empty string of decimal digits.
DigitOnly(s) == s # <<>> /\ \A i \in 1..Len(s) : s[i] \in {Digits[j] : j \in 1..10}

RECURSIVE StripLeadingZeros(_)
StripLeadingZeros(s) ==
    IF Len(s) > 1 /\ Head(s) = "0" THEN StripLeadingZeros(Tail(s)) ELSE s

\* The decimal text Python prints for the number that the text t denotes:
\* for an int, t without its leading zeros (and without the sign of zero);
\* for a float, the integer part without its leading zeros and the
\* fraction without its trailing zeros, each of one digit at least.
CanonicalText(type, t) ==
    IF type = "int"
    THEN LET neg == t # <<>> /\ Head(t) = "-"
             body == StripLeadingZeros(IF neg THEN Tail(t) ELSE t)
         IN  IF neg /\ body # <<"0">> THEN <<"-">> \o body ELSE body
    ELSE LET dot == CHOOSE i \in 1..Len(t) : t[i] = "."
             ipart == SubSeq(t, 1, dot - 1)
             fpart == StripTrailingZeros(SubSeq(t, dot + 1, Len(t)))
         IN  (IF ipart = <<>> THEN <<"0">> ELSE StripLeadingZeros(ipart))
             \o <<".">> \o (IF fpart = <<>> THEN <<"0">> ELSE fpart)

\* C5 as stated: for a pair of digit-only strings, the value of a number
\* field keeps its numeric kind and its decimal text is the input's decimal
\* text with o replaced by r.
C5_TextIsReplacedText ==
    (idx = 2 /\ DigitOnly(PairO) /\ DigitOnly(PairR))
        => /\ pc = "clean"
           /\ ds[1].type = ds0[1].type
           /\ ElemNumberText(ds[1]) = StrReplace(ElemNumberText(ds0[1]), PairO, PairR)

\* C5 amended: for a pair of digit-only strings, the call does not raise,
\* the value keeps its numeric kind, and the value is the number denoted by
\* the input's decimal text with o replaced by r: its own decimal text is
\* that text without leading zeros (and redundant trailing fraction zeros).
C5_KindKeptValueParsed ==
    (idx = 2 /\ DigitOnly(PairO) /\ DigitOnly(PairR))
        => /\ pc = "clean"
           /\ ds[1].type = ds0[1].type
           /\ ElemNumberText(ds[1]) =
                CanonicalText(ds0[1].type, StrReplace(ElemNumberText(ds0[1]), PairO, PairR))

C5_Witness ==
    /\ Returned
    /\ ds0 = <<FloatElem([ip |-> 12, fr |-> <<"1">>])>>
    /\ PairO = <<"1">>
    /\ PairR = <<"0">>
    /\ ds = <<FloatElem([ip |-> 2, fr |-> <<>>])>>


-----------------------------------------------------------------------------
(* Properties of the cleaning pass and of the extraction of the pairs. *)

RefComplete(image) == image.read /\ image.has["PatientID"] /\ image.has["SeriesDate"]

\* C6: the pairs are applied to the file one after the other in the order
\* of the extraction, the PatientID pair first and the SeriesDate pair
\* second: the saved Dataset is the substitution of the date pair in the
\* substitution of the identifier pair in the Dataset read.
C6_SequentialFold ==
    (pc = "done" /\ RefComplete(original_ref) /\ RefComplete(ctp_ref))
        => saved.ds =
            anonymize_tag_recurse(
                anonymize_tag_recurse(ds0, original_ref.val["PatientID"],
                                      ctp_ref.val["PatientID"]).ds,
                original_ref.val["SeriesDate"], ctp_ref.val["SeriesDate"]).ds

\* The date pair has rewritten the text that the identifier pair brought in.
C6_Witness ==
    /\ pc = "done"
    /\ pairs = << <<<<"a">>, <<"1">>>>, <<<<"1">>, <<"2">>>> >>
    /\ ds0 = <<StrElem(<<"a", "a">>)>>
    /\ saved = [written |-> TRUE, ds |-> <<StrElem(<<"2", "2">>)>>]

\* The lookup of field f on a side fails when the side's reference image
\* cannot be read or does not hold f.
LookupFails(image, f) == ~image.read \/ ~image.has[f]

\* The names of the failed lookups, in the order of the probes.
FailedLookups ==
    IssueIf(LookupFails(original_ref, "PatientID"), "original_ref_image.PatientID")
    \o IssueIf(LookupFails(ctp_ref, "PatientID"), "ctp_ref_image.PatientID")
    \o IssueIf(LookupFails(original_ref, "SeriesDate"), "original_ref_image.SeriesDate")
    \o IssueIf(LookupFails(ctp_ref, "SeriesDate"), "ctp_ref_image.SeriesDate")

\* C7: when a reference image cannot be read or a field is absent on either
\* side, the extraction returns no pair and an issue list naming exactly
\* the (side, field) lookups that failed, none that would have succeeded.
C7_IssuesNameExactlyFailures ==
    (pc # "extract" /\ FailedLookups # <<>>)
        => (pairs = <<>> /\ list_issues = FailedLookups)


-----------------------------------------------------------------------------
(* Properties of the classifier.  The rules as the design states them:     *)
(* 1 structured report, 2 image-type deny-list, 3 secondary capture of CT, *)
(* 4 protocol name, 5 series description, 6 T1w and 7 T2w sequence names   *)
(* of original images.                                                     *)

\* The value of an attribute holds x: as one of its values, or inside its
\* single value.
Holds(value, x) ==
    \E i \in 1..Len(value.items) :
        IF value.multi THEN value.items[i] = x ELSE StrContains(value.items[i], x)

HoldsAnyCase(value, x) ==
    \E i \in 1..Len(value.items) : StrContains(LowerStr(value.items[i]), LowerStr(x))

Matches1(hdr) == hdr["Modality"].present /\ Holds(hdr["Modality"], S_SR)
Matches2(hdr) ==
    /\ hdr["ImageType"].present
    /\ \E k \in {S_SCREEN_SAVE, S_DISPLAY, S_LOCALIZER, S_OTHER} : Holds(hdr["ImageType"], k)
Matches3(hdr) ==
    /\ hdr["ImageType"].present /\ Holds(hdr["ImageType"], S_SECONDARY)
    /\ hdr["Modality"].present /\ Holds(hdr["Modality"], S_CT)
Matches4(hdr) ==
    /\ hdr["ProtocolName"].present
    /\ \E k \in {S_Scout, S_localizer} : HoldsAnyCase(hdr["ProtocolName"], k)
Matches5(hdr) ==
    /\ hdr["SeriesDescription"].present
    /\ \E k \in {S_morpho, S_DEV, S_report, S_AAhead, S_rapid, S_KEY_IMAGES} :
            HoldsAnyCase(hdr["SeriesDescription"], k)
Matches6(hdr) ==
    /\ hdr["SequenceName"].present /\ hdr["ImageType"].present
    /\ \E k \in {S_tfl3d, S_fl2d} : Holds(hdr["SequenceName"], k)
    /\ Holds(hdr["ImageType"], S_ORIGINAL)
Matches7(hdr) ==
    /\ hdr["SequenceName"].present /\ hdr["ImageType"].present
    /\ Holds(hdr["SequenceName"], S_ir)
    /\ Holds(hdr["ImageType"], S_ORIGINAL)

MatchesNoneOf1To5(hdr) ==
    ~(Matches1(hdr) \/ Matches2(hdr) \/ Matches3(hdr) \/ Matches4(hdr) \/ Matches5(hdr))

\* C8: the evaluation of the rules never raises for a missing attribute,
\* whatever attributes are present and whatever the flags are.
C8_NeverRaises == pc # "raised"

\* C9 as stated: the rules are evaluated in the order 1..7 and once a rule
\* has matched no later rule is evaluated.
C9_NoRuleAfterFirstMatch ==
    fired # <<>> => \A i \in 1..Len(evaluated) : evaluated[i] <= fired[1]

\* C9 amended: the rules are evaluated in the order 1..7; once a rule has
\* matched no later rule is evaluated, but for rule 3, which is evaluated
\* together with rule 2 even after rule 2 has matched; a record matching
\* rules 2 and 4 (and not rule 1) has rule 2 as its first fired rule and
\* never has rule 4 evaluated; the decision returned is that a rule fired.
C9_PriorityOrder ==
    /\ \A i, j \in 1..Len(evaluated) : i < j => evaluated[i] < evaluated[j]
    /\ fired # <<>> =>
            \A i \in 1..Len(evaluated) :
                evaluated[i] <= fired[1] \/ (fired[1] = 2 /\ evaluated[i] = 3)
    /\ (pc \notin {"Modality", "ImageType"}
            /\ ~Matches1(dataset) /\ Matches2(dataset) /\ Matches4(dataset))
        => (fired # <<>> /\ fired[1] = 2 /\ \A i \in 1..Len(evaluated) : evaluated[i] # 4)
    /\ pc = "returned" => (delete_this_file <=> fired # <<>>)

C9_Witness ==
    /\ pc = "returned"
    /\ Matches2(dataset) /\ Matches4(dataset)
    /\ evaluated = <<1, 2, 3>>
    /\ fired = <<2>>
    /\ delete_this_file

\* C10: for a record matching none of the rules 1 to 5 the decision is
\* (delete_T1w and rule 6 matches) or (delete_T2w and rule 7 matches).
C10_OptInDecision ==
    (pc \in {"returned", "raised"} /\ MatchesNoneOf1To5(dataset))
        => /\ pc = "returned"
           /\ delete_this_file <=>
                ((delete_T1w /\ Matches6(dataset)) \/ (delete_T2w /\ Matches7(dataset)))

\* C11: a record whose ImageType holds one of the deny-listed kinds is
\* classified delete = True, whatever its other attributes are and whether
\* or not they are present.
C11_DenyListedImageTypeDeleted ==
    (pc \in {"returned", "raised"} /\ Matches2(dataset))
        => (pc = "returned" /\ delete_this_file)

\* The value with its letters in lower case, in upper case.
ToUpper(c) ==
    IF \E i \in 1..26 : LowerCase[i] = c
    THEN UpperCase[CHOOSE i \in 1..26 : LowerCase[i] = c]
    ELSE c

UpperStr(s) == [i \in 1..Len(s) |-> ToUpper(s[i])]

LowerValue(value) == [value EXCEPT !.items = [i \in 1..Len(value.items) |-> LowerStr(value.items[i])]]
UpperValue(value) == [value EXCEPT !.items = [i \in 1..Len(value.items) |-> UpperStr(value.items[i])]]

\* The record with the letter case of its ImageType, ProtocolName,
\* SeriesDescription and SequenceName changed; Modality is left alone.
LowerHdr(hdr) == [a \in Attributes |-> IF a = "Modality" THEN hdr[a] ELSE LowerValue(hdr[a])]
UpperHdr(hdr) == [a \in Attributes |-> IF a = "Modality" THEN hdr[a] ELSE UpperValue(hdr[a])]

\* delete_identifiable_dicom_file as a function of the header read and of
\* the two flags, lines 56-145: [raised, delete].
delete_identifiable_dicom_file(hdr, T1w, T2w) ==
    LET d1 == InAttributes(hdr, "Modality") /\ InValue(S_SR, hdr["Modality"])
        in2 == ~d1 /\ InAttributes(hdr, "ImageType")
        secondary == in2 /\ InValue(S_SECONDARY, hdr["ImageType"])
        keyError == secondary /\ ~InAttributes(hdr, "Modality")
        d2 == d1 \/ (in2 /\ AnyInValue(IMAGETYPES_TO_REMOVE, hdr["ImageType"]))
                 \/ (secondary /\ ~keyError /\ InValue(S_CT, hdr["Modality"]))
        d4 == d2 \/ (InAttributes(hdr, "ProtocolName")
                        /\ ReSearch(<<S_Scout, S_localizer>>, hdr["ProtocolName"].items[1]))
        d5 == d4 \/ (InAttributes(hdr, "SeriesDescription")
                        /\ ReSearch(<<S_morpho, S_DEV, S_report, S_AAhead, S_rapid, S_KEY_IMAGES>>,
                                    hdr["SeriesDescription"].items[1]))
        both == InAttributes(hdr, "SequenceName") /\ InAttributes(hdr, "ImageType")
        d6 == d5 \/ (T1w /\ both /\ AnyInValue(T1W_TO_REMOVE, hdr["SequenceName"])
                        /\ InDataElement(S_ORIGINAL, hdr["ImageType"]))
        d7 == d6 \/ (T2w /\ both /\ InValue(S_ir, hdr["SequenceName"])
                        /\ InDataElement(S_ORIGINAL, hdr["ImageType"]))
    IN  [raised |-> keyError, delete |-> IF keyError THEN d2 ELSE d7]

\* The run of the classifier ends as the function says.
ClassifierOutcome ==
    pc \in {"returned", "raised"}
        => LET out == delete_identifiable_dicom_file(dataset, delete_T1w, delete_T2w)
           IN  (pc = "raised") = out.raised /\ delete_this_file = out.delete

\* C12: the rules match case-insensitively: the record with the letters of
\* its ImageType, ProtocolName, SeriesDescription and SequenceName put in
\* lower case, or in upper case, gets the decision that the record gets.
C12_DecisionIgnoresCase ==
    pc = "returned"
        => \A variant \in {LowerHdr(dataset), UpperHdr(dataset)} :
                LET out == delete_identifiable_dicom_file(variant, delete_T1w, delete_T2w)
                IN  ~out.raised /\ out.delete = delete_this_file

-----------------------------------------------------------------------------
(* Properties of the slice sorter. *)

\* The files of a list, as a bag: permutations have the same.
FileCount(files, f) == Cardinality({i \in 1..Len(files) : files[i] = f})
IsPermutation(a, b) ==
    /\ Len(a) = Len(b)
    /\ \A i \in 1..Len(a) : FileCount(a, a[i]) = FileCount(b, a[i])

\* The projection of (position - first input file's position) onto the
\* cross product of the first input file's row and column vectors.
Projection(f) ==
    LET ref == file_paths[1]
        d == Minus(f.position, ref.position)
        x == SubSeq(ref.orientation, 1, 3)
        y == SubSeq(ref.orientation, 4, 6)
        n == <<x[2] * y[3] - x[3] * y[2], x[3] * y[1] - x[1] * y[3], x[1] * y[2] - x[2] * y[1]>>
    IN  d[1] * n[1] + d[2] * n[2] + d[3] * n[3]

Sorted == pc \in {"sorted", "resorted", "raised again"}

\* C13: the result of the sorter is a permutation of its input in which
\* the projection onto the scan axis of the first input file never
\* decreases.
C13_PermutationInScanOrder ==
    Sorted
        => /\ IsPermutation(sorted_file_paths, file_paths)
           /\ \A i, j \in 1..Len(sorted_file_paths) :
                i < j => Projection(sorted_file_paths[i]) <= Projection(sorted_file_paths[j])

\* Files at the projected distances 10, -5, 0 come back as -5, 0, 10.
C13_Witness ==
    /\ pc = "sorted"
    /\ Len(file_paths) = 3
    /\ \A i \in 1..3 : file_paths[i].orientation = <<1, 0, 0, 0, 1, 0>>
    /\ <<file_paths[1].position, file_paths[2].position, file_paths[3].position>>
            = << <<0, 0, 10>>, <<0, 0, 0 - 5>>, <<0, 0, 0>> >>
    /\ <<sorted_file_paths[1].file, sorted_file_paths[2].file, sorted_file_paths[3].file>>
            = <<2, 3, 1>>

\* Every file carries a position and an orientation pair.
AllGeometry(files) ==
    \A i \in 1..Len(files) : files[i].hasPosition /\ files[i].hasOrientation

\* C14 as stated: for files with position and orientation, the sorter given
\* its own result returns it, whatever the orientations of the files are.
C14_Idempotent ==
    (pc \in {"resorted", "raised again"} /\ AllGeometry(file_paths))
        => (pc = "resorted" /\ resorted_file_paths = sorted_file_paths)

\* Every file carries the orientation pair of the first.
SameOrientation(files) ==
    \A i \in 1..Len(files) :
        files[i].hasOrientation /\ files[i].orientation = files[1].orientation

\* C14 amended: the sorter given its own result returns it when all the
\* files carry the same orientation pair.
C14_IdempotentOnOneOrientation ==
    (pc \in {"resorted", "raised again"} /\ SameOrientation(file_paths))
        => (pc = "resorted" /\ resorted_file_paths = sorted_file_paths)

C14_Witness ==
    /\ pc = "resorted"
    /\ SameOrientation(file_paths)
    /\ Len(file_paths) = 3
    /\ sorted_file_paths # file_paths
    /\ resorted_file_paths = sorted_file_paths

\* Where the file f stands in the list.
IndexOf(files, f) == CHOOSE i \in 1..Len(files) : files[i] = f

\* C15: two files of equal projection keep in the result the relative order
\* that they have in the input.
C15_Stable ==
    Sorted
        => \A i, j \in 1..Len(file_paths) :
                (i < j /\ Projection(file_paths[i]) = Projection(file_paths[j]))
                    => IndexOf(sorted_file_paths, file_paths[i])
                            < IndexOf(sorted_file_paths, file_paths[j])

C15_Witness ==
    /\ pc = "sorted"
    /\ Len(file_paths) = 3
    /\ Projection(file_paths[1]) = Projection(file_paths[3])
    /\ Projection(file_paths[2]) < Projection(file_paths[1])
    /\ <<sorted_file_paths[1].file, sorted_file_paths[2].file, sorted_file_paths[3].file>>
            = <<2, 1, 3>>

\* C16: no file or one file is returned as given, with no geometry needed.
C16_UpToOneFileUnchanged ==
    (pc # "sort" /\ Len(file_paths) <= 1)
        => (pc # "raised" /\ sorted_file_paths = file_paths)

\* C17: among two files or more, a file without its position or without
\* its orientation pair makes the sort fail, be it the first or a later one.
C17_MissingGeometryFails ==
    (pc # "sort" /\ Len(file_paths) >= 2
        /\ \E i \in 1..Len(file_paths) :
                ~file_paths[i].hasPosition \/ ~file_paths[i].hasOrientation)
        => pc = "raised"

-----------------------------------------------------------------------------
(* Properties of update_dat_script_file. *)

Called == pc \in {"second call", "done"}
Produced == Called /\ dat_result.raised = "no"
\* The document at the path returned.
Document == temp_dir[dat_result.new_dat_script].lines

\* C18: the template keeps its content over the calls, successful or
\* raising, and what the calls write is in files of temp_dir.
C18_TemplateUnchanged ==
    /\ original_dat_script = original_bytes
    /\ Produced => temp_dir[dat_result.new_dat_script].exists

\* Two calls made, each having written its file, the template as it was.
C18_Witness ==
    /\ pc = "done"
    /\ dat_result.raised = "no"
    /\ \A suffix \in 1..MaxSuffix : temp_dir[suffix].exists
    /\ temp_dir[1].lines # original_bytes
    /\ original_dat_script = original_bytes

\* The offset returned is the caller's, or one of [-30, 30].
OffsetAsAsked ==
    IF dat_args.dateinc.given THEN dat_result.dateinc = dat_args.dateinc.v
    ELSE dat_result.dateinc \in (0 - 30)..30

DateincAtIndex1 ==
    /\ Len(Document) >= 2
    /\ Document[2] = Line("dateinc", "", dat_result.dateinc)

\* C19 as stated: in the document produced, the line at index 1 (from 0)
\* is the DATEINC line and holds the offset returned, which is the caller's
\* or one of [-30, 30], for every template.
C19_DateincAtIndex1 == Produced => (DateincAtIndex1 /\ OffsetAsAsked)

\* Where the closing marker of the template stands (0: nowhere).
TemplateEnd == IndexOfLine("</script>", original_bytes)

\* C19 amended: the same for every template whose closing marker does not
\* stand on one of its first two lines.
C19_DateincAtIndex1UnlessMarkerFirst ==
    (Produced /\ TemplateEnd \notin {1, 2}) => (DateincAtIndex1 /\ OffsetAsAsked)

\* The template of the scenario: the fields are inserted, the offset drawn.
C19_Witness ==
    /\ pc = "second call"
    /\ dat_result.raised = "no"
    /\ original_bytes = <<TemplateLine("other"), TemplateLine("dateinc"), TemplateLine("end")>>
    /\ ~dat_args.dateinc.given
    /\ dat_result.dateinc = 0 - 30
    /\ Len(Document) = 7
    /\ Document[2] = Line("dateinc", "", 0 - 30)

\* A line of the field that carries the value stands before the closing
\* marker of the document.
BeforeEnd(kind, text) ==
    LET end == IndexOfLine("</script>", Document)
    IN  /\ end # 0
        /\ \E i \in 1..(end - 1) : Document[i] = Line(kind, text, 0)

FieldsBeforeEnd ==
    /\ BeforeEnd("pid", dat_result.new_patient_id)
    /\ dat_args.new_patient_id # "None" => dat_result.new_patient_id = dat_args.new_patient_id
    /\ BeforeEnd("pname", dat_result.new_patient_name)
    /\ BeforeEnd("suid", dat_result.new_series_uid)

\* The lines that follow the closing marker.
LinesAfterEnd(lines) ==
    LET end == IndexOfLine("</script>", lines)
    IN  IF end = 0 THEN 0 ELSE Len(lines) - end

FieldsPrecedeEnd ==
    /\ TemplateEnd \notin {0, 2}
    /\ \A marker \in {"n=PatientID", "n=PatientName", "n=SeriesInstanceUID"} :
            IndexOfLine(marker, original_bytes) < TemplateEnd

DateincNotInSecondLine ==
    Len(original_bytes) < 2 \/ ~InLine("DATEINC", original_bytes[2])

\* C21: a call on a template whose second line does not hold DATEINC, the
\* template without a second line included, raises ValueError and returns
\* no document.
C21_ValueErrorWithoutDateinc ==
    (Called /\ DateincNotInSecondLine) =>
        /\ dat_result.raised = "ValueError"
        /\ dat_result.new_dat_script = 0

\* A call on a template of fewer than two lines has raised IndexError.
C21_Witness ==
    /\ Called
    /\ Len(original_bytes) < 2
    /\ dat_result.raised = "IndexError"

\* A call on a template without DATEINC in its second line has raised and
\* returned no document.
C21_RaisesWithoutDateinc ==
    (Called /\ DateincNotInSecondLine) =>
        /\ dat_result.raised \in {"ValueError", "IndexError"}
        /\ dat_result.new_dat_script = 0

-----------------------------------------------------------------------------
(* The classifier and the file it is given. *)

\* C25: when delete_identifiable_dicom_file has returned, the file is gone
\* if and only if the value returned is True; a file kept is the file read.
C25_RemovedIffTrue ==
    /\ pc = "returned" => (file_exists <=> ~delete_this_file)
    /\ pc \in {"Modality", "ImageType", "ProtocolName", "SeriesDescription", "T1w", "T2w",
               "remove", "raised"} => file_exists

\* The call has returned True and the file is gone.
C25_Witness ==
    /\ pc = "returned"
    /\ delete_this_file
    /\ ~file_exists

-----------------------------------------------------------------------------
(* Tag-valued fields under the substitution engine. *)

\* The tag-valued elements of a Dataset, those of its sequences included,
\* in document order.
RECURSIVE TagElemsOf(_)
TagElemsOf(record) ==
    IF record = <<>> THEN <<>>
    ELSE LET e == Head(record)
             here == IF e.type = "BaseTag" THEN <<e>>
                     ELSE IF e.VR = "SQ"
                     THEN LET RECURSIVE OfItems(_)
                              OfItems(items) ==
                                  IF items = <<>> THEN <<>>
                                  ELSE TagElemsOf(Head(items)) \o OfItems(Tail(items))
                          IN  OfItems(e.sq)
                     ELSE <<>>
         IN  here \o TagElemsOf(Tail(record))

\* C26: after the call with any pair, the tag-valued fields of the Dataset
\* are those of the Dataset given, and a Dataset whose only other fields
\* are the marker strings is not made to raise by them.
C26_TagPassedThrough ==
    idx = 2 =>
        /\ TagElemsOf(ds) = TagElemsOf(ds0)
        /\ TagElemsOf(ds0) # <<>> => pc = "clean"

\* The call made with a digit pair that occurs in the text of the tag 11:
\* the marker strings are rewritten, the tags are not.
C26_Witness ==
    /\ Returned
    /\ Len(TagElemsOf(ds0)) > 1
    /\ ds0[1].type = "BaseTag"
    /\ ds0[1].n = 11
    /\ PairO = <<"1">>
    /\ PairR = <<"a">>
    /\ ds # ds0
    /\ ds[1] = ds0[1]

\* C28: the call with any pair on any Dataset returns, it does not raise.
C28_NeverRaises == idx = 2 => pc = "clean"

\* The call with a digit original and a replacement that is not a number
\* has raised on an integer field whose text holds the original.
C28_Witness ==
    /\ idx = 2
    /\ pc = "raised"
    /\ ds0[1].type = "int"
    /\ IsNumeric(PairO)
    /\ ~IsNumeric(PairR)
    /\ StrContains(ElemNumberText(ds0[1]), PairO)

-----------------------------------------------------------------------------
(* The shape of the extractor's result. *)

\* C30: get_dangerous_tag_pairs returns two pairs and no issue, or no pair
\* and at least one issue: never one pair, never two empty lists, never
\* two non-empty lists.
C30_TwoPairsOrIssues ==
    pc # "extract" =>
        \/ Len(pairs) = 2 /\ list_issues = <<>>
        \/ pairs = <<>> /\ list_issues # <<>>

\* Both records read and both subject identifiers present, the date absent
\* on one side: the identifier pair is dropped and the date lookup named.
C30_Witness ==
    /\ pc # "extract"
    /\ original_ref.read /\ ctp_ref.read
    /\ original_ref.has["PatientID"] /\ ctp_ref.has["PatientID"]
    /\ original_ref.has["SeriesDate"] /\ ~ctp_ref.has["SeriesDate"]
    /\ pairs = <<>>
    /\ list_issues = <<"ctp_ref_image.SeriesDate">>

-----------------------------------------------------------------------------
(* update_dat_script_file called by several workers at once, on the same   *)
(* template and the same temp_dir.  A worker is [pc, new_dat_script,       *)
(* lines, new_patient_id, dateinc, raised]: its position in the function,  *)
(* the file it chose, the lines it read and what it returns.               *)

MaxWorkers == 2    \* number of concurrent calls

Workers == 1..MaxWorkers

\* uuid.uuid4() of each call: the calls draw different values
Uuid4(w) == "uuid4-" \o <<"a", "b", "c", "d">>[w]

\* The template of the tests, the same with a PatientID line, and one
\* without DATEINC in its second line.
WorkerTemplates ==
    {<<TemplateLine("other"), TemplateLine("dateinc"), TemplateLine("end")>>,
     <<TemplateLine("other"), TemplateLine("dateinc"), TemplateLine("pid"), TemplateLine("end")>>,
     <<TemplateLine("other"), TemplateLine("other"), TemplateLine("end")>>}

\* lines 213-215: random_suffix and new_dat_script
WorkerDraw(w) ==
    /\ worker[w].pc = "draw"
    /\ \E random_suffix \in 1..MaxSuffix :
        worker' = [worker EXCEPT ![w].pc = "copy", ![w].new_dat_script = random_suffix]
    /\ UNCHANGED <<substVars, refVars, clsVars, sortVars, datVars, renVars, drvVars>>

\* line 218: shutil.copyfile(original_dat_script, new_dat_script)
WorkerCopy(w) ==
    /\ worker[w].pc = "copy"
    /\ temp_dir' = [temp_dir EXCEPT ![worker[w].new_dat_script] = File(original_dat_script)]
    /\ worker' = [worker EXCEPT ![w].pc = "read"]
    /\ UNCHANGED <<substVars, refVars, clsVars, sortVars, original_dat_script, original_bytes,
                   dat_args, dat_result, renVars, drvVars>>

\* lines 221-222: lines = f.readlines()
WorkerRead(w) ==
    /\ worker[w].pc = "read"
    /\ worker' = [worker EXCEPT ![w].pc = "write",
                                ![w].lines = temp_dir[worker[w].new_dat_script].lines]
    /\ UNCHANGED <<substVars, refVars, clsVars, sortVars, datVars, renVars, drvVars>>

\* lines 224-305: the lines updated and written, and the return; a raise
\* writes nothing
WorkerWrite(w) ==
    /\ worker[w].pc = "write"
    /\ \E drawn \in RandintValues :
        LET out == UpdatedLines(worker[w].lines, Uuid4(w), drawn, Uuid4(w), Uuid4(w))
        IN  IF out.raised # "no"
            THEN /\ worker' = [worker EXCEPT ![w].pc = "raised", ![w].raised = out.raised]
                 /\ UNCHANGED temp_dir
            ELSE /\ temp_dir' = [temp_dir EXCEPT ![worker[w].new_dat_script] = File(out.lines)]
                 /\ worker' = [worker EXCEPT ![w].pc = "done", ![w].raised = "no",
                                             ![w].new_patient_id = Uuid4(w),
                                             ![w].dateinc = drawn]
    /\ UNCHANGED <<substVars, refVars, clsVars, sortVars, original_dat_script, original_bytes,
                   dat_args, dat_result, renVars, drvVars>>

InitWorkers ==
    /\ pc = "workers"
    /\ original_dat_script \in WorkerTemplates
    /\ original_bytes = original_dat_script
    /\ temp_dir = [suffix \in 1..MaxSuffix |-> NoFile]
    /\ dat_args = <<>>
    /\ dat_result = <<>>
    /\ worker = [w \in Workers |->
                    [pc |-> "draw", new_dat_script |-> 0, lines |-> <<>>,
                     new_patient_id |-> "", dateinc |-> 0, raised |-> "not returned"]]
    /\ NoSort
    /\ NoRename
    /\ NoDriver
    /\ NoSubst
    /\ NoReferences
    /\ NoClassifier

NextWorkers ==
    \E w \in Workers : WorkerDraw(w) \/ WorkerCopy(w) \/ WorkerRead(w) \/ WorkerWrite(w)

SpecWorkers == InitWorkers /\ [][NextWorkers]_vars

-----------------------------------------------------------------------------
(* Properties of the concurrent calls. *)

\* The file at the path returned to worker w.
WorkerDocument(w) == temp_dir[worker[w].new_dat_script].lines

\* The file holds the offset returned to w and no identifier but w's.
HoldsOnlyValuesOf(w) ==
    LET doc == WorkerDocument(w)
    IN  /\ Len(doc) >= 2
        /\ doc[2] = Line("dateinc", "", worker[w].dateinc)
        /\ \E i \in 1..Len(doc) : doc[i] = Line("pid", worker[w].new_patient_id, 0)
        /\ \A i \in 1..Len(doc) :
            doc[i].kind \in {"pid", "pname"} => doc[i].text = worker[w].new_patient_id

\* C22: the workers that have returned hold different paths, and the file
\* at the path of each holds the identifiers and the offset returned to it.
C22_PrivateCopies ==
    \A w \in Workers :
        worker[w].pc = "done" =>
            /\ \A v \in Workers \ {w} :
                worker[v].pc = "done" => worker[v].new_dat_script # worker[w].new_dat_script
            /\ HoldsOnlyValuesOf(w)

\* Two workers have returned the same path, whose file holds the values of
\* the second one only.
C22_Witness ==
    /\ worker[1].pc = "done" /\ worker[2].pc = "done"
    /\ worker[1].new_dat_script = worker[2].new_dat_script
    /\ HoldsOnlyValuesOf(2)
    /\ ~HoldsOnlyValuesOf(1)

\* Workers whose file names differ each have their own file.
PrivateWhenNamesDiffer ==
    \A w \in Workers :
        (/\ worker[w].pc = "done"
         /\ \A v \in Workers \ {w} : worker[v].new_dat_script # worker[w].new_dat_script)
        => HoldsOnlyValuesOf(w)

-----------------------------------------------------------------------------
(* check_and_rename_dicom_files on one directory.  The directory is a set  *)
(* of [name, file]: the name of a file and the file gathered under that    *)
(* name at first (file_paths[file]).  The arguments are                    *)
(* [patient_identifiers, replacement_string, platform], the set of         *)
(* identifiers as the sequence in which it is iterated.                    *)

MaxStem == 2       \* longest stem of a file name
MaxNames == 2      \* most files of the directory

DcmSuffix == <<".", "d", "c", "m">>

\* file.endswith(".dcm")
EndsWithDcm(name) ==
    Len(name) >= Len(DcmSuffix)
    /\ SubSeq(name, Len(name) - Len(DcmSuffix) + 1, Len(name)) = DcmSuffix

NameChars == {"a", "A", "1"}
FileNames == {stem \o DcmSuffix : stem \in StrsOver(NameChars, MaxStem) \ {<<>>}}

\* str(ds.PatientName).strip() of the input files: empty, letters, digits
IdentifierValues == {<<>>, <<"a">>, <<"A">>, <<"1">>}
\* the orders in which a set of at most two identifiers is iterated
IdentifierOrders ==
    {<<>>} \cup {<<a>> : a \in IdentifierValues}
    \cup {ab \in IdentifierValues \X IdentifierValues : ab[1] # ab[2]}

\* str(new_series_uid), or the string of another caller
ReplacementValues == {<<"X">>, <<"1">>}

Platforms == {"posix", "windows"}

\* The positions of the files; the orientation is that of axial slices.
RenamePositions == {NoVector, <<0, 0, 0>>, <<0, 0, 10>>}

\* lines 471-480: the first pass
AnyNeedsRenaming(names, patient_identifiers) ==
    \E i \in 1..Len(names), k \in 1..Len(patient_identifiers) :
        StrContains(LowerStr(names[i]), LowerStr(patient_identifiers[k]))

\* lines 491-493: new_filename after the loop over the identifiers
RECURSIVE NewFilename(_, _, _)
NewFilename(new_filename, patient_identifiers, replacement_string) ==
    IF patient_identifiers = <<>> THEN new_filename
    ELSE NewFilename(
            StrReplace(LowerStr(new_filename), LowerStr(Head(patient_identifiers)),
                       replacement_string),
            Tail(patient_identifiers), replacement_string)

\* The file under a name of the directory.
FileAt(dir, name) == (CHOOSE e \in dir : e.name = name).file

\* lines 496-497: file_path.rename(new_file_path).  On posix a file at the
\* new path is replaced; on windows the rename raises FileExistsError when
\* another file has the new name, letter case apart: [raised, dir].
PathRename(dir, name, new_name, platform) ==
    LET moved == {e \in dir : e.name \notin {name, new_name}}
                 \cup {[name |-> new_name, file |-> FileAt(dir, name)]}
    IN  IF name = new_name THEN [raised |-> FALSE, dir |-> dir]
        ELSE IF platform = "windows"
                /\ \E e \in dir : e.name # name /\ LowerStr(e.name) = LowerStr(new_name)
        THEN [raised |-> TRUE, dir |-> dir]
        ELSE [raised |-> FALSE, dir |-> moved]

\* lines 488-501: the loop over sorted_file_paths, names being the paths of
\* the files in that order; the except clause prints and goes on
RECURSIVE RenameLoop(_, _, _)
RenameLoop(dir, names, args) ==
    IF names = <<>> THEN dir
    ELSE LET new_filename == NewFilename(Head(names), args.patient_identifiers,
                                         args.replacement_string)
             res == PathRename(dir, Head(names), new_filename, args.platform)
         IN  RenameLoop(res.dir, Tail(names), args)

\* The name under which a file was gathered.
NameOf(dir, f) == (CHOOSE e \in dir : e.file = f.file).name

\* check_and_rename_dicom_files, lines 462-501, on the directory dir whose
\* files os.walk lists as files: [raised, sorted, dir]
check_and_rename_dicom_files(dir, files, args) ==
    LET gathered == SelectSeq(files, LAMBDA f : EndsWithDcm(NameOf(dir, f)))
        names == [i \in 1..Len(gathered) |-> NameOf(dir, gathered[i])]
    IN  IF ~AnyNeedsRenaming(names, args.patient_identifiers)
        THEN [raised |-> FALSE, sorted |-> <<>>, dir |-> dir]
        ELSE LET out == get_sorted_image_files(gathered)
             IN  IF out.raised THEN [raised |-> TRUE, sorted |-> <<>>, dir |-> dir]
                 ELSE [raised |-> FALSE, sorted |-> out.files,
                       dir |-> RenameLoop(dir,
                                          [i \in 1..Len(out.files) |-> NameOf(dir, out.files[i])],
                                          args)]

\* line 181 of run_dat: the call
CheckAndRename ==
    /\ pc = "rename"
    /\ LET res == check_and_rename_dicom_files(dicom_folder, file_paths, rename_args)
       IN  /\ dicom_folder' = res.dir
           /\ sorted_file_paths' = res.sorted
           /\ pc' = IF res.raised THEN "raised" ELSE "returned"
    /\ UNCHANGED <<ds, ds0, pairs, idx, saved, emitted, refVars, clsVars, file_paths,
                   resorted_file_paths, datVars, wrkVars, dicom_folder0, rename_args, drvVars>>

InitRename ==
    /\ pc = "rename"
    /\ \E n \in 0..MaxNames :
        \E names \in [1..n -> FileNames], positions \in [1..n -> RenamePositions] :
            /\ \A i, j \in 1..n : i # j => names[i] # names[j]
            /\ file_paths = [i \in 1..n |-> ImageFile(i, positions[i], <<1, 0, 0, 0, 1, 0>>)]
            /\ dicom_folder = {[name |-> names[i], file |-> i] : i \in 1..n}
            /\ \E ids \in IdentifierOrders, r \in ReplacementValues, p \in Platforms :
                /\ p = "windows" =>
                    \A i, j \in 1..n : i # j => LowerStr(names[i]) # LowerStr(names[j])
                /\ rename_args = [patient_identifiers |-> ids, replacement_string |-> r,
                                  platform |-> p]
    /\ dicom_folder0 = dicom_folder
    /\ sorted_file_paths = <<>>
    /\ resorted_file_paths = <<>>
    /\ NoDat
    /\ NoWorkers
    /\ NoDriver
    /\ NoSubst
    /\ NoReferences
    /\ NoClassifier

NextRename == CheckAndRename

SpecRename == InitRename /\ [][NextRename]_vars

-----------------------------------------------------------------------------
(* Properties of the renaming. *)

\* The names of the directory before the call, as a sequence.
NamesBefore == [i \in 1..Len(file_paths) |-> NameOf(dicom_folder0, file_paths[i])]

\* The call has returned and some name held an identifier.
RenamedAll ==
    /\ pc = "returned"
    /\ AnyNeedsRenaming(NamesBefore, rename_args.patient_identifiers)

\* <replacement_string>.<i>.dcm
IndexedName(i) == rename_args.replacement_string \o <<".">> \o NatToStr(i) \o DcmSuffix

\* C23: when a name holds an identifier, the file at position i (from 0) of
\* the slice order is found under <replacement_string>.<i>.dcm after the
\* call, for every file of the directory.
C23_RenamedToIndexedNames ==
    RenamedAll =>
        /\ Len(sorted_file_paths) = Len(file_paths)
        /\ \A i \in 1..Len(sorted_file_paths) :
            [name |-> IndexedName(i - 1), file |-> sorted_file_paths[i].file] \in dicom_folder

\* Two files renamed, found under the lowercase of their names with the
\* identifier replaced, not under indexed names.
C23_Witness ==
    /\ RenamedAll
    /\ Len(sorted_file_paths) = 2
    /\ rename_args.patient_identifiers = <<<<"a">>>>
    /\ rename_args.replacement_string = <<"X">>
    /\ dicom_folder0 = {[name |-> <<"a">> \o DcmSuffix, file |-> 1],
                        [name |-> <<"A", "1">> \o DcmSuffix, file |-> 2]}
    /\ dicom_folder = {[name |-> <<"X">> \o DcmSuffix, file |-> 1],
                       [name |-> <<"X", "1">> \o DcmSuffix, file |-> 2]}

\* name holds one of the identifiers, letter case apart
HoldsIdentifier(name) ==
    \E k \in 1..Len(rename_args.patient_identifiers) :
        StrContains(LowerStr(name), LowerStr(rename_args.patient_identifiers[k]))

\* C24: after the call has returned, no .dcm name of the directory holds
\* an identifier.
C24_NoIdentifierInNames ==
    pc = "returned" =>
        \A e \in dicom_folder : EndsWithDcm(e.name) => ~HoldsIdentifier(e.name)

\* The call has returned on posix with an identifier that is not empty, and
\* a name still holds it: the replacement string holds it too.
C24_Witness ==
    /\ pc = "returned"
    /\ rename_args.platform = "posix"
    /\ rename_args.patient_identifiers = <<<<"1">>>>
    /\ rename_args.replacement_string = <<"1">>
    /\ \E e \in dicom_folder : EndsWithDcm(e.name) /\ HoldsIdentifier(e.name)

\* C29: the directory holds as many files after the call as before it.
C29_NoFileLost ==
    pc = "returned" => Cardinality(dicom_folder) = Cardinality(dicom_folder0)

\* Two files whose names differ by letter case only: one is left, under the
\* lowercase name.
C29_Witness ==
    /\ pc = "returned"
    /\ Cardinality(dicom_folder0) = 2
    /\ \A e \in dicom_folder0 : LowerStr(e.name) = <<"a">> \o DcmSuffix
    /\ rename_args.patient_identifiers = <<<<"A">>>>
    /\ Cardinality(dicom_folder) = 1

-----------------------------------------------------------------------------
(* main() of ctp_dat_batcher.py: the loop over the patient folders and the *)
(* log CTP_<name>_newids_dateinc_log.csv.  A folder is the number that     *)
(* stands for its name, the order of the numbers that of the names.        *)
(* driver_args is [listing, new_ids, day_shift, dat_script]: what          *)
(* os.listdir returns, whether --new-ids and --day-shift are given, and    *)
(* the lines of the template.  injected[k] is what update_dat_script_file  *)
(* wrote in the script of the k-th folder: [done, new_patient_id, dateinc].*)

MaxFolders == 2    \* most patient folders of input_folders

\* os.listdir(input_folders): the folders in any order
Listings ==
    {q \in UNION {[1..n -> 1..MaxFolders] : n \in 0..MaxFolders} :
        \A i, j \in 1..Len(q) : i # j => q[i] # q[j]}

\* all_patient_folders.sort(), lines 688-693
SortedFolders(listing) ==
    CHOOSE q \in [1..Len(listing) -> {listing[i] : i \in 1..Len(listing)}] :
        \A i, j \in 1..Len(listing) : i < j => q[i] < q[j]

\* new_patient_ids[folder] and day_shifts[folder] of the JSON files
NewIdOf(folder) == "id-" \o <<"a", "b", "c", "d">>[folder]
DayShiftOf(folder) == 40 + folder

NoneInt == [given |-> FALSE, v |-> 0]
SomeInt(v) == [given |-> TRUE, v |-> v]

\* what run_dat does after update_dat_script_file: it returns, the Docker
\* run fails (lines 175-179), or check_and_rename_dicom_files raises (line 181)
RunDatOutcomes == {"returned", "docker failed", "rename raised"}

\* f"{folder}, sub-{new_patient_id}, {dateinc}\n", line 735
InfoLine(folder, new_patient_id, dateinc) ==
    [folder |-> folder, new_patient_id |-> "sub-" \o new_patient_id, dateinc |-> dateinc]

\* lines 706-729: new_patient_id and dateinc after the try statement; the
\* assignment of line 718 is not made when run_dat raises
LoggedValues(failed, arg_id, arg_inc, new_patient_id, dateinc) ==
    IF failed THEN [new_patient_id |-> arg_id, dateinc |-> arg_inc]
    ELSE [new_patient_id |-> new_patient_id, dateinc |-> SomeInt(dateinc)]

\* lines 688-702
ListFolders ==
    /\ pc = "list"
    /\ all_patient_folders' = SortedFolders(driver_args.listing)
    /\ folder_index' = 1
    /\ injected' = [k \in 1..Len(driver_args.listing) |->
                        [done |-> FALSE, new_patient_id |-> "", dateinc |-> 0]]
    /\ pc' = "loop"
    /\ UNCHANGED <<ds, ds0, pairs, idx, saved, emitted, refVars, clsVars, sortVars, datVars,
                   wrkVars, renVars, CTP_ids_file, driver_args>>

\* lines 703-738: one turn of the loop.  rename_ctp_output_subject_folders
\* (line 732) is outside the try statement: when it raises, main is left
\* with no line written for the folder.
ProcessFolder ==
    /\ pc = "loop"
    /\ folder_index <= Len(all_patient_folders)
    /\ \E drawn \in RandintValues, outcome \in RunDatOutcomes, renamed \in BOOLEAN :
        LET folder == all_patient_folders[folder_index]
            arg_id == IF driver_args.new_ids THEN NewIdOf(folder) ELSE "None"
            arg_inc == IF driver_args.day_shift THEN SomeInt(DayShiftOf(folder)) ELSE NoneInt
            new_patient_id == IF arg_id = "None" THEN Uuid4(folder) ELSE arg_id
            dateinc == IF arg_inc.given THEN arg_inc.v ELSE drawn
            out == UpdatedLines(driver_args.dat_script, new_patient_id, dateinc,
                                Uuid4(folder), Uuid4(folder))
            failed == out.raised # "no" \/ outcome # "returned"
            logged == LoggedValues(failed, arg_id, arg_inc, new_patient_id, dateinc)
        IN  /\ injected' =
                IF out.raised # "no" THEN injected
                ELSE [injected EXCEPT ![folder_index] =
                        [done |-> TRUE, new_patient_id |-> new_patient_id, dateinc |-> dateinc]]
            /\ IF renamed
               THEN /\ CTP_ids_file' = Append(CTP_ids_file,
                                              InfoLine(folder, logged.new_patient_id, logged.dateinc))
                    /\ folder_index' = folder_index + 1
                    /\ pc' = "loop"
               ELSE /\ UNCHANGED <<CTP_ids_file, folder_index>>
                    /\ pc' = "aborted"
    /\ UNCHANGED <<ds, ds0, pairs, idx, saved, emitted, refVars, clsVars, sortVars, datVars,
                   wrkVars, renVars, all_patient_folders, driver_args>>

\* lines 746-749: the loop is over
Finish ==
    /\ pc = "loop"
    /\ folder_index > Len(all_patient_folders)
    /\ pc' = "done"
    /\ UNCHANGED <<ds, ds0, pairs, idx, saved, emitted, refVars, clsVars, sortVars, datVars,
                   wrkVars, renVars, drvVars>>

InitDriver ==
    /\ pc = "list"
    /\ \E listing \in Listings, new_ids \in BOOLEAN, day_shift \in BOOLEAN,
          dat_script \in WorkerTemplates :
        driver_args = [listing |-> listing, new_ids |-> new_ids, day_shift |-> day_shift,
                       dat_script |-> dat_script]
    /\ all_patient_folders = <<>>
    /\ folder_index = 0
    /\ CTP_ids_file = <<>>
    /\ injected = <<>>
    /\ NoSort
    /\ NoDat
    /\ NoWorkers
    /\ NoRename
    /\ NoSubst
    /\ NoReferences
    /\ NoClassifier

NextDriver == ListFolders \/ ProcessFolder \/ Finish

SpecDriver == InitDriver /\ [][NextDriver]_vars

-----------------------------------------------------------------------------
(* Properties of the log. *)

\* One line for each turn of the loop that came to its end, the folders in
\* the order of their names.
OneLinePerFolderInOrder ==
    /\ Len(CTP_ids_file) = (IF pc = "list" THEN 0 ELSE folder_index - 1)
    /\ \A k \in 1..Len(CTP_ids_file) : CTP_ids_file[k].folder = all_patient_folders[k]
    /\ \A j, k \in 1..Len(CTP_ids_file) :
        j < k => CTP_ids_file[j].folder < CTP_ids_file[k].folder

\* The k-th line holds what was written in the script of the k-th folder.
LineRecordsInjected(k) ==
    injected[k].done =>
        /\ CTP_ids_file[k].new_patient_id = "sub-" \o injected[k].new_patient_id
        /\ CTP_ids_file[k].dateinc = SomeInt(injected[k].dateinc)

\* C27: one line per folder processed, in the order of the folder names,
\* each holding the identifier and the offset written in the script of its
\* folder, the folders whose run_dat call failed included.
C27_LogRecordsInjected ==
    /\ OneLinePerFolderInOrder
    /\ \A k \in 1..Len(CTP_ids_file) : LineRecordsInjected(k)

\* A script was written for the first folder with a drawn identifier and
\* offset, run_dat failed, and the line of the folder holds None for both.
C27_Witness ==
    /\ Len(CTP_ids_file) >= 1
    /\ injected[1].done
    /\ injected[1].new_patient_id = Uuid4(all_patient_folders[1])
    /\ CTP_ids_file[1].new_patient_id = "sub-None"
    /\ CTP_ids_file[1].dateinc = NoneInt

\* When both --new-ids and --day-shift are given, the lines of all folders
\* hold the values injected.
LogRecordsInjectedWhenGiven ==
    /\ OneLinePerFolderInOrder
    /\ (driver_args # <<>> /\ driver_args.new_ids /\ driver_args.day_shift) =>
        \A k \in 1..Len(CTP_ids_file) : LineRecordsInjected(k)
====
